---- MODULE Spec2Model ----
(***************************************************************************)
(* A model of the dvrip_rs client core: the session object (DVRIPCam), the *)
(* request layer of dvrip.rs, the reader and writer tasks that connect()   *)
(* spawns, the keep-alive task, the alarm worker, and the device at the    *)
(* other end of the socket.                                                *)
(***************************************************************************)
EXTENDS Integers, Sequences, FiniteSets, TLC

(***************************************************************************)
(* Bounds of the model.                                                    *)
(***************************************************************************)
\* calls the user makes in one run
MaxCalls == 3
\* frames the device sends in one run beyond one for every request written
MaxEvents == 1
\* data blocks of the firmware file an upgrade uploads
MaxBlocks == 1
\* the operation timeout, in clock ticks
Timeout == 1

(***************************************************************************)
(* Program constants.                                                      *)
(***************************************************************************)
OK_CODES == {100, 515}
LoginCode == 1000
KeepAliveCode == 1006
AlarmSetCode == 1500
AlarmInfoCode == 1504
VideoCode == 1412
SystemInfoCode == 1020
\* 0x5F2, the message id of the upload's blocks and of their acknowledgements
UpgradeCode == 1522
\* 0x0585, 0x590 and 0x059a: requests answered under the next counter
NextCounterCodes == {1413, 1424, 1434}
\* capacity of the channel of the upload's listener
ListenerCap == 10
DefaultAliveTime == 20
\* 2^28: a u32 times 16 overflows from here on
U32Div16 == 268435456

(***************************************************************************)
(* A JSON unsigned integer is kept as two 32-bit words: the field itself   *)
(* holds the low word and the field with suffix Hi the high word.  A       *)
(* negative low word stands for a field that is absent or is no unsigned   *)
(* integer: Value::as_u64 gives None for it.                               *)
(***************************************************************************)
\* reply.get("Ret").and_then(|r| r.as_u64()) is Some
HasRet(body) == body.Ret >= 0

\* `ret as u32`: the high word is dropped
AsU32(body) == body.Ret

\* the integer value of Ret is in the set
RetIn(body, set) == HasRet(body) /\ body.RetHi = 0 /\ body.Ret \in set

\* OK_CODES.contains(&(ret as u32))
RetOk(body) == HasRet(body) /\ AsU32(body) \in OK_CODES

(***************************************************************************)
(* Strings are sequences of one-character strings.                         *)
(***************************************************************************)
HexDigit(c) ==
    CASE c = "0" -> 0 [] c = "1" -> 1 [] c = "2" -> 2 [] c = "3" -> 3
      [] c = "4" -> 4 [] c = "5" -> 5 [] c = "6" -> 6 [] c = "7" -> 7
      [] c = "8" -> 8 [] c = "9" -> 9
      [] c \in {"a", "A"} -> 10 [] c \in {"b", "B"} -> 11
      [] c \in {"c", "C"} -> 12 [] c \in {"d", "D"} -> 13
      [] c \in {"e", "E"} -> 14 [] c \in {"f", "F"} -> 15
      [] OTHER -> -1

RECURSIVE HexFold(_, _)
\* the digits of s folded onto acc; -1 on an invalid digit or when the
\* value leaves the u32 range
HexFold(s, acc) ==
    IF s = <<>> THEN acc
    ELSE LET d == HexDigit(Head(s)) IN
         IF d < 0 \/ acc >= U32Div16 THEN -1
         ELSE HexFold(Tail(s), acc * 16 + d)

\* u32::from_str_radix(s, 16): -1 stands for Err
FromStrRadix16(s) ==
    LET digits == IF s # <<>> /\ Head(s) = "+" THEN Tail(s) ELSE s IN
    IF digits = <<>> THEN -1 ELSE HexFold(digits, 0)

\* &session_str[2..] is Skip2; Skip0 is the string with its prefix kept
Skip0(s) == s
Skip2(s) == SubSeq(s, 3, Len(s))

(***************************************************************************)
(* Frames the device sends.  A body is the JSON object of a reply:         *)
(* Ret and RetHi, SessionID (HasSessionID says whether it is there),       *)
(* AliveInterval (-1: absent), HasCmd: the object has a key equal to the   *)
(* command name of the request.  stalled: the header arrives and the body  *)
(* does not.                                                               *)
(***************************************************************************)
Sid1234 == <<"0", "x", "0", "0", "0", "0", "1", "2", "3", "4">>
Sid2A == <<"0", "x", "2", "A">>
SidBad == <<"0", "x", "G">>
SidWide == <<"0", "x", "1", "0", "0", "0", "0", "0", "0", "0", "0">>

Body(ret, retHi, hasSid, sid, alive, hasCmd) ==
    [Ret |-> ret, RetHi |-> retHi, HasSessionID |-> hasSid, SessionID |-> sid,
     AliveInterval |-> alive, HasCmd |-> hasCmd]

NoBody == Body(-1, 0, FALSE, <<>>, -1, FALSE)

Frame(msg, cnt, sess, body, stalled) ==
    [msg_id |-> msg, packet_count |-> cnt, session |-> sess,
     body |-> body, stalled |-> stalled]

\* the replies, alarm events and half-sent frames the device may send
DeviceFrames ==
    { Frame(LoginCode + 1, 0, 0, Body(100, 0, TRUE, Sid1234, 20, FALSE), FALSE),
      Frame(LoginCode + 1, 0, 66, Body(515, 0, TRUE, Sid2A, 5, TRUE), FALSE),
      Frame(LoginCode + 1, 0, 0, Body(100, 0, FALSE, <<>>, -1, FALSE), FALSE),
      Frame(LoginCode + 1, 0, 0, Body(100, 0, TRUE, SidBad, 5, FALSE), FALSE),
      Frame(LoginCode + 1, 0, 0, Body(100, 0, TRUE, SidWide, 5, FALSE), FALSE),
      Frame(LoginCode + 1, 0, 66, Body(106, 0, TRUE, Sid2A, 5, FALSE), FALSE),
      Frame(LoginCode + 1, 0, 0, Body(100, 1, TRUE, Sid2A, 5, FALSE), FALSE),
      Frame(LoginCode + 1, 0, 0, Body(100, 0, TRUE, Sid1234, 20, FALSE), TRUE),
      Frame(AlarmInfoCode, 1, 0, NoBody, FALSE) }

\* what is left in the socket when a header is read and its body is not:
\* the body's bytes, which the next read takes for a header
Residue == Frame(0, 0, 0, NoBody, TRUE)

\* the frames the device may send to the reader: acknowledgements and
\* progress reports of an upload, alarm events, a video frame
MuxFrames ==
    { Frame(UpgradeCode, c, 0, Body(r, 0, FALSE, <<>>, -1, FALSE), FALSE) :
        c \in 0..MaxBlocks, r \in {100, 515} }
    \cup { Frame(AlarmInfoCode, c, 0, NoBody, FALSE) : c \in 0..MaxBlocks }
    \cup { Frame(VideoCode, 0, 0, NoBody, FALSE) }

\* the frames the device may send during an upgrade: frames of the
\* upload's message id with and without an integer Ret, and alarm events
UpFrames ==
    { Frame(UpgradeCode, c, 0, Body(r, 0, FALSE, <<>>, -1, FALSE), FALSE) :
        c \in 0..MaxBlocks, r \in {100, 101, -1} }
    \cup { Frame(UpgradeCode, 0, 0, Body(r[1], r[2], FALSE, <<>>, -1, FALSE),
                 FALSE) :
             r \in {<<50, 0>>, <<515, 0>>, <<513, 0>>, <<513, 1>>} }
    \cup { Frame(AlarmInfoCode, 0, 0, NoBody, FALSE) }

\* 0x1FC, 0x1FD, 0x1FA, 0x1F9, 0x5FC, 0x0592: the message ids of the frames
\* of a download
StreamIds == {508, 509, 506, 505, 1532, 1426}

\* the payload of a media frame: data_len bytes, known by a tag
Media(len, tag) == [data_len |-> len, tag |-> tag]

\* the frames of a download the device may send: two data frames and the
\* empty frame that ends the stream
MediaFrames ==
    { Frame(508, 0, 0, Media(1, 1), FALSE),
      Frame(508, 0, 0, Media(1, 2), FALSE),
      Frame(508, 0, 0, Media(0, 0), FALSE) }

\* the requests that are submitted on one connection
MaxRequests == 3

\* the frames the device may send: replies under the counters of the
\* requests and under the next ones
WireFrames ==
    { Frame(SystemInfoCode + 1, c, 0, NoBody, FALSE) : c \in 1..MaxRequests + 1 }

\* replies and alarm frames that bear the session id of the login, 0, or
\* another, 0x42
SessionFrames ==
    { Frame(msg, c, sid, NoBody, FALSE) :
        msg \in {SystemInfoCode + 1, AlarmInfoCode}, c \in {0, 1},
        sid \in {0, 66} }

\* the frames the device may send while frames are routed: a video frame,
\* an alarm frame, a frame of a download and a reply, each under counter 0
\* and under the counter of the first request
RouteFrames ==
    { Frame(msg, c, 0, NoBody, FALSE) :
        msg \in {VideoCode, AlarmInfoCode, 508, SystemInfoCode + 1},
        c \in {0, 1} }

\* the socket holds one entry for every frame that has arrived; what the
\* device put in a frame shows when the frame is read
Arrived(entry) ==
    CASE entry = "residue" -> {Residue}
      [] entry = "frame" -> DeviceFrames
      [] entry = "mux" -> MuxFrames
      [] entry = "media" -> MediaFrames
      [] entry = "up" -> UpFrames
      [] entry = "wire" -> WireFrames
      [] entry = "session" -> SessionFrames
      [] entry = "route" -> RouteFrames

NoFrame == Frame(0, 0, 0, NoBody, FALSE)

(***************************************************************************)
(* State.                                                                  *)
(***************************************************************************)
VARIABLES
    \* DVRIPCam: the atomic flags
    connected, authenticated, monitoring, alarm_monitoring,
    \* DVRIPCam: session id, request counter, keep-alive period
    session, packet_count, alive_time,
    \* DVRIPCam.stream: TRUE when it holds a socket; its mutex: who holds it
    stream, stream_lock,
    \* DVRIPCam.alarm_callback is Some
    alarm_callback,
    \* the task handles: keep_alive_handle names a keep-alive task (0: None),
    \* the others say whether the handle is Some
    keep_alive_handle, alarm_handle, recv_handle, send_handle,
    \* the tasks: keep-alive tasks by number, alarm worker, reader, writer
    ka, alarm_worker, reader, writer,
    \* the socket: the frames that arrived and nobody read, whether the
    \* device closed its end, the last frame written, and the frames the
    \* device may still send
    inbox, peer_closed, wire_last, dev_left,
    \* the caller: where its call stands, the verb, the frame whose body it
    \* is reading, and the ticks it has waited in the present read
    pc, op, cur, waited,
    \* history: the state at the call and the number of calls, the last
    \* completed call, the aborts of the last close() in order,
    \* new/open/closed, and the most recent delivery of an inbound frame
    \* to a callback, waiter or handler (a sequence of at most one)
    pre, calls, last, abort_log, lifecycle, delivered,
    \* the multiplexer: the one-shot waiters by packet counter (the value
    \* is the block whose upload waits), the message ids with a persistent
    \* stream handler, the frames in the handler's channel, the requests
    \* queued for the writer, the writer's counter, the frame the waiting
    \* upload was given, and the upload's block number
    message_handlers, stream_handlers, chan, send_pool, wcount, ack, blocknum

flags == <<connected, authenticated, monitoring, alarm_monitoring>>
atoms == <<session, packet_count, alive_time>>
handles == <<keep_alive_handle, alarm_handle, recv_handle, send_handle>>
tasks == <<ka, alarm_worker, reader, writer>>
sock == <<stream, stream_lock, inbox, peer_closed, wire_last, dev_left>>
caller == <<pc, op, cur, waited>>
hist == <<pre, calls, last, abort_log, lifecycle, delivered>>
mux == <<message_handlers, stream_handlers, chan, send_pool, wcount, ack, blocknum>>
upload == <<stream_handlers, chan, ack, blocknum>>
core == <<flags, atoms, handles, tasks, sock, caller, hist, alarm_callback, mux>>

(***************************************************************************)
(* State of the verbs that are followed on their own: the session above    *)
(* stays as it is while they run, and they stay idle while it runs.        *)
(***************************************************************************)
VARIABLES
    \* list_local_files: where the call stands, the replies it has read,
    \* the BeginTime of every query it has sent, its result so far, and
    \* what it returned
    lf_pc, lf_pages, lf_queries, lf_result, lf_out,
    \* stream_file and download_file: where the call stands, what it has
    \* done in order, the frames its loop took from the channel, the frames
    \* it gave to the consumer, and what it returned
    dl_pc, dl_log, dl_taken, dl_consumed, dl_out,
    \* upgrade: the message id of the request that starts it, the reply to
    \* that request, and what the progress callback was last given
    us_sent, us_reply, us_progress,
    \* the backchannel: the codec recorded, the length of the talk buffer,
    \* the frames given to send_raw_packet, the bytes send_audio was given
    \* and whether every send so far succeeded, the calls made and the
    \* result of the last one
    tk_codec, tk_buffer, tk_frames, tk_fed, tk_clean, tk_calls, tk_out,
    \* PacketHeader: the header that was encoded, the bytes given to decode,
    \* and what decode returned
    hd_h, hd_bytes, hd_dec,
    \* a function of the crate that is followed on its own: its name, the
    \* value it was given and the value it returned
    fx_op, fx_in, fx_out,
    \* the writer task: the request it has taken from the queue, what it has
    \* done for it, the frames it has written on this connection, and the
    \* requests submitted to it
    w_req, w_did, w_wrote, w_subs,
    \* the device of list_local_files: the recordings it holds
    dv_lib,
    \* the reader task in its send into a full channel: the frame it holds,
    \* with the handler's entry of the table
    rd_frame

files == <<lf_pc, lf_pages, lf_queries, lf_result, lf_out>>

\* no list_local_files has been called
FilesIdle ==
    /\ lf_pc = "idle" /\ lf_pages = <<>> /\ lf_queries = <<>>
    /\ lf_result = <<>> /\ lf_out = "none"

download == <<dl_pc, dl_log, dl_taken, dl_consumed, dl_out>>

\* no stream_file or download_file has been called
DownloadIdle ==
    /\ dl_pc = "idle" /\ dl_log = <<>> /\ dl_taken = <<>>
    /\ dl_consumed = <<>> /\ dl_out = "none"

start == <<us_sent, us_reply, us_progress>>

\* what the progress callback is given: a text and the number in it
Said(text, n) == [text |-> text, n |-> n]

\* no upgrade has been started
StartIdle == us_sent = 0 /\ us_reply = NoBody /\ us_progress = Said("", 0)

talk == <<tk_codec, tk_buffer, tk_frames, tk_fed, tk_clean, tk_calls, tk_out>>

\* a result of a call of the backchannel
TalkResult(o, res) == [op |-> o, result |-> res]

\* no start_talk has been called and the talk buffer is empty
TalkIdle ==
    /\ tk_codec = "None" /\ tk_buffer = 0 /\ tk_frames = <<>>
    /\ tk_fed = 0 /\ tk_clean = TRUE /\ tk_calls = 0
    /\ tk_out = TalkResult("none", "none")

packet_header == <<hd_h, hd_bytes, hd_dec>>

PacketHeader(head, version, sess, cnt, msg, len) ==
    [head |-> head, version |-> version, session |-> sess,
     packet_count |-> cnt, msg_id |-> msg, data_len |-> len]

\* no header
NoHeader == PacketHeader(0, 0, <<0, 0>>, <<0, 0>>, 0, <<0, 0>>)

\* Result<PacketHeader>, and what stands for it before decode has returned
Decoding(h) == [ok |-> TRUE, err |-> "", h |-> h]
NoDecoding(err) == [ok |-> FALSE, err |-> err, h |-> NoHeader]

\* no header has been encoded or decoded
CodecIdle ==
    hd_h = NoHeader /\ hd_bytes = <<>> /\ hd_dec = NoDecoding("none")

calc == <<fx_op, fx_in, fx_out>>

\* no function has been applied
CalcIdle ==
    fx_op = "none" /\ fx_in = <<>> /\ fx_out = <<>>

wire == <<w_req, w_did, w_wrote, w_subs>>

\* a request in the writer's hands: its header with the counter it is
\* written with, and the response sink it came with
Taken(msg, cnt, internal, wants, sink) ==
    [msg_id |-> msg, packet_count |-> cnt, use_internal_counter |-> internal,
     wants_response |-> wants, sink |-> sink]

NoRequest == Taken(0, 0, FALSE, FALSE, 0)

\* the writer has taken nothing from its queue
WireIdle ==
    w_req = NoRequest /\ w_did = {} /\ w_wrote = <<>> /\ w_subs = 0

recordings == <<dv_lib>>

\* the recordings a device holds: how many begin at the first, the second
\* and the third time of the day
Library(held, counts) == [held |-> held, counts |-> counts]

NoLibrary == Library(FALSE, <<0, 0, 0>>)

RecordingsIdle ==
    dv_lib = NoLibrary

held == <<rd_frame>>

HeldIdle ==
    rd_frame = NoFrame

ext == <<files, download, start, talk, packet_header, calc, wire, recordings, held>>

ExtIdle == FilesIdle /\ DownloadIdle /\ StartIdle /\ TalkIdle /\ CodecIdle
    /\ CalcIdle
    /\ WireIdle
    /\ RecordingsIdle
    /\ HeldIdle

\* what the steps of one verb leave alone
notFiles == <<core, download, start, talk, packet_header, calc, wire, recordings, held>>
notDownload == <<files, start, talk, packet_header, calc, wire, recordings, held>>
notStart == <<files, download, talk, packet_header, calc, wire, recordings, held>>
notTalk == <<core, files, download, start, packet_header, calc, wire, recordings, held>>
notCodec == <<core, files, download, start, talk, calc, wire, recordings, held>>

notCalc == <<core, files, download, start, talk, packet_header, wire, recordings, held>>

notWire == <<files, download, start, talk, packet_header, calc, recordings, held>>

notRecordings == <<core, files, download, start, talk, packet_header, calc, wire, held>>

notHeld == <<files, download, start, talk, packet_header, calc, wire, recordings>>

vars == <<core, ext>>

EmptyMap == [k \in {} |-> 0]

KaIds == 1..MaxCalls

\* a frame on the wire, and whether close() had returned when it was written
WireFrame(msg, sess, cnt) ==
    [msg_id |-> msg, session |-> sess, packet_count |-> cnt,
     after_close |-> (lifecycle = "closed")]

\* the keep-alive tasks spawned so far
KeepAliveSpawned == Cardinality({k \in KaIds : ka[k] # "none"})

\* the state a call finds
Snapshot ==
    [session |-> session, alive_time |-> alive_time,
     authenticated |-> authenticated, alarm_monitoring |-> alarm_monitoring,
     keep_alive_handle |-> keep_alive_handle,
     spawned |-> KeepAliveSpawned,
     down |-> (~connected \/ reader = "panicked")]

\* a completed call: the verb, what it returned, whether it wrote a frame,
\* and the reply it read (header session and body), if it read one
Completed(o, res, wrote, replied, f) ==
    [op |-> o, result |-> res, wrote |-> wrote, replied |-> replied,
     hdr_session |-> f.session, reply |-> f.body]

NoCall == Completed("none", "none", FALSE, FALSE, NoFrame)

\* a call of the user begins: the state at the call is kept
Call ==
    /\ calls < MaxCalls /\ calls' = calls + 1
    /\ pre' = Snapshot

\* DVRIPCam::new
Init ==
    /\ connected = FALSE /\ authenticated = FALSE
    /\ monitoring = FALSE /\ alarm_monitoring = FALSE
    /\ session = 0 /\ packet_count = 1 /\ alive_time = DefaultAliveTime
    /\ stream = FALSE /\ stream_lock = "free"
    /\ alarm_callback = FALSE
    /\ keep_alive_handle = 0 /\ alarm_handle = FALSE
    /\ recv_handle = FALSE /\ send_handle = FALSE
    /\ ka = [k \in KaIds |-> "none"]
    /\ alarm_worker = "none" /\ reader = "none" /\ writer = "none"
    /\ inbox = <<>> /\ peer_closed = FALSE
    /\ wire_last = [msg_id |-> 0, session |-> 0, packet_count |-> 0,
                    after_close |-> FALSE]
    /\ dev_left = MaxEvents
    /\ pc = "idle" /\ op = "none" /\ cur = NoFrame /\ waited = 0
    /\ pre = [session |-> 0, alive_time |-> DefaultAliveTime,
              authenticated |-> FALSE, alarm_monitoring |-> FALSE,
              keep_alive_handle |-> 0, spawned |-> 0, down |-> TRUE]
    /\ calls = 0
    /\ last = NoCall
    /\ abort_log = <<>> /\ lifecycle = "new" /\ delivered = <<>>
    /\ message_handlers = EmptyMap /\ stream_handlers = {} /\ chan = <<>>
    /\ send_pool = <<>> /\ wcount = 1 /\ ack = NoFrame /\ blocknum = 0
    /\ ExtIdle

(***************************************************************************)
(* The caller.  One call is in progress at a time.                         *)
(***************************************************************************)
Return(o, res, wrote, replied, f) ==
    /\ pc' = "idle" /\ op' = "none" /\ cur' = NoFrame /\ waited' = 0
    /\ last' = Completed(o, res, wrote, replied, f)

\* the socket of the connection is the one the request layer finds in
\* DVRIPCam.stream
AttachStream ==
    /\ stream' = TRUE /\ inbox' = <<>> /\ peer_closed' = FALSE

\* Connection::connect, the connection established: the reader and the
\* writer are spawned and the connected flag is set
ConnectEstablished ==
    /\ AttachStream
    /\ reader' = "running" /\ recv_handle' = TRUE
    /\ writer' = "running" /\ send_handle' = TRUE
    /\ message_handlers' = EmptyMap
    /\ send_pool' = <<>> /\ wcount' = 1
    /\ connected' = TRUE
    /\ lifecycle' = "open"

\* Connection::connect called by the user
connect ==
    /\ pc = "idle" /\ ~connected
    /\ Call
    /\ \/ /\ ConnectEstablished
          /\ Return("connect", "Ok", FALSE, FALSE, NoFrame)
          /\ UNCHANGED <<authenticated, monitoring, alarm_monitoring, atoms,
                         keep_alive_handle, alarm_handle, ka, alarm_worker,
                         stream_lock, wire_last, dev_left, abort_log,
                         delivered, alarm_callback, upload>>
       \/ \* "Connection timeout" or "Connection error: ..."
          /\ Return("connect", "ConnectionError", FALSE, FALSE, NoFrame)
          /\ UNCHANGED <<flags, atoms, handles, tasks, sock, abort_log,
                         lifecycle, delivered, alarm_callback, mux>>
    /\ UNCHANGED ext

\* the message id a verb sends
MsgOf(o) ==
    CASE o = "login" -> LoginCode
      [] o = "get" -> SystemInfoCode
      [] o = "start_alarm" -> AlarmSetCode

\* send_command_recv_bin, lines 82-84: a verb other than login is called
RequestCall(o) ==
    /\ pc = "idle"
    /\ o = "start_alarm" => alarm_worker \notin {"check", "hdr"}
    /\ Call
    /\ IF ~connected
       THEN Return(o, "ConnectionError", FALSE, FALSE, NoFrame)
       ELSE /\ pc' = "lock" /\ op' = o /\ last' = NoCall
            /\ UNCHANGED <<cur, waited>>
    /\ UNCHANGED <<flags, atoms, handles, tasks, sock, abort_log, lifecycle,
                   delivered, alarm_callback, mux>>
    /\ UNCHANGED ext

\* Authentication::login, lines 36-48: connect when not connected, then
\* send message 1000
LoginCall ==
    /\ pc = "idle"
    /\ Call
    /\ IF connected
       THEN /\ pc' = "lock" /\ op' = "login" /\ last' = NoCall
            /\ UNCHANGED <<cur, waited, flags, handles, tasks, sock,
                           lifecycle, message_handlers, send_pool, wcount>>
       ELSE \/ /\ ConnectEstablished
               /\ pc' = "lock" /\ op' = "login" /\ last' = NoCall
               /\ UNCHANGED <<cur, waited, authenticated, monitoring,
                              alarm_monitoring, keep_alive_handle,
                              alarm_handle, ka, alarm_worker, stream_lock,
                              wire_last, dev_left>>
            \/ /\ Return("login", "ConnectionError", FALSE, FALSE, NoFrame)
               /\ UNCHANGED <<flags, handles, tasks, sock, lifecycle,
                              message_handlers, send_pool, wcount>>
    /\ UNCHANGED <<atoms, abort_log, delivered, alarm_callback, upload>>
    /\ UNCHANGED ext

\* send_command_recv_bin, lines 86-107: lock the stream, number the frame,
\* write it
SendLocked ==
    /\ pc = "lock" /\ stream_lock = "free"
    /\ IF ~stream
       THEN \* "Stream not available"
            /\ Return(op, "ConnectionError", FALSE, FALSE, NoFrame)
            /\ UNCHANGED <<atoms, sock>>
       ELSE /\ packet_count' = packet_count + 1
            /\ \/ /\ wire_last' = WireFrame(MsgOf(op), session, packet_count)
                  /\ dev_left' = dev_left + 1
                  /\ stream_lock' = "caller"
                  /\ pc' = "hdr" /\ waited' = 0
                  /\ UNCHANGED <<op, cur, last>>
               \/ \* the write fails
                  /\ peer_closed
                  /\ Return(op, "IoError", FALSE, FALSE, NoFrame)
                  /\ UNCHANGED <<wire_last, stream_lock, dev_left>>
            /\ UNCHANGED <<session, alive_time, stream, inbox, peer_closed>>
    /\ UNCHANGED <<flags, handles, tasks, pre, calls, abort_log, lifecycle,
                   delivered, alarm_callback, mux>>
    /\ UNCHANGED ext

\* send_command_recv_bin, line 121: the session id of the reply's header
\* is stored (StoredSession); StoredSessionKept is a request layer that
\* leaves the stored session id alone
StoredSessionKept(f) == session
StoredSession(f) == f.session

\* send_command_recv_bin, lines 113-131: the header of the next frame in
\* the socket is taken as the reply's; its body does not follow
RecvHeaderStalled(f) ==
    /\ pc = "hdr" /\ inbox # <<>> /\ f \in Arrived(Head(inbox))
    /\ f.stalled
    /\ session' = StoredSession(f)
    /\ cur' = f /\ inbox' = Tail(inbox)
    /\ pc' = "body" /\ waited' = 0
    /\ UNCHANGED <<flags, packet_count, alive_time, handles, tasks, stream,
                   stream_lock, peer_closed, wire_last, dev_left, op, hist,
                   alarm_callback, mux>>
    /\ UNCHANGED ext

\* send_command_recv_bin, lines 115-119, and receive_packet_header: the
\* device has closed the connection; there is no other way out of the read
RecvHeaderFails ==
    /\ pc = "hdr" /\ inbox = <<>> /\ peer_closed
    /\ connected' = FALSE
    /\ stream_lock' = "free"
    /\ Return(op, "ConnectionError", TRUE, FALSE, NoFrame)
    /\ UNCHANGED <<authenticated, monitoring, alarm_monitoring, atoms,
                   handles, tasks, stream, inbox, peer_closed, wire_last,
                   dev_left, pre, calls, abort_log, lifecycle, delivered,
                   alarm_callback, mux>>
    /\ UNCHANGED ext

\* send_command_recv_bin, lines 124-131, and receive_data: the body does not
\* come: the device closes, or the timeout of the read expires
RecvBodyFails ==
    /\ pc = "body"
    /\ peer_closed \/ waited >= Timeout
    /\ connected' = FALSE
    /\ stream_lock' = "free"
    /\ Return(op, "ConnectionError", TRUE, FALSE, NoFrame)
    /\ UNCHANGED <<authenticated, monitoring, alarm_monitoring, atoms,
                   handles, tasks, stream, inbox, peer_closed, wire_last,
                   dev_left, pre, calls, abort_log, lifecycle, delivered,
                   alarm_callback, mux>>
    /\ UNCHANGED ext

\* time passes while the caller is blocked in a read.  The read of a body
\* is under a timeout, which fires when it expires; the read of a header is
\* under none.
Tick ==
    /\ \/ pc = "hdr" /\ inbox = <<>> /\ waited <= Timeout
       \/ pc = "body" /\ waited < Timeout
    /\ waited' = waited + 1
    /\ UNCHANGED <<flags, atoms, handles, tasks, sock, pc, op, cur, hist,
                   alarm_callback, mux>>
    /\ UNCHANGED ext

(***************************************************************************)
(* The verbs, on the reply.                                                *)
(***************************************************************************)
\* start_keep_alive: a new task is spawned and its handle replaces the one
\* stored
NextKa == CHOOSE k \in KaIds : ka[k] = "none" /\ \A j \in KaIds : ka[j] = "none" => k <= j

start_keep_alive ==
    /\ ka' = [ka EXCEPT ![NextKa] = "sleep"]
    /\ keep_alive_handle' = NextKa

\* login, lines 55-60: the session id after a successful reply: the one its
\* SessionID gives (-1 when it does not parse), the stored one when the
\* reply has none
LoginSession(f) ==
    IF f.body.HasSessionID THEN FromStrRadix16(Skip2(f.body.SessionID))
    ELSE StoredSession(f)

\* login, lines 62-64
LoginAliveTime(body) ==
    IF body.AliveInterval >= 0 THEN body.AliveInterval ELSE alive_time

\* Authentication::login, lines 52-71, on the reply
LoginReply(f) ==
    IF RetOk(f.body)
    THEN IF f.body.HasSessionID /\ Len(f.body.SessionID) < 2
         THEN \* the slice [2..] is out of range
              /\ Return("login", "panic", TRUE, TRUE, f)
              /\ session' = StoredSession(f)
              /\ UNCHANGED <<alive_time, authenticated, ka, keep_alive_handle>>
         ELSE IF LoginSession(f) < 0
         THEN \* "Invalid SessionID"
              /\ Return("login", "ProtocolError", TRUE, TRUE, f)
              /\ session' = StoredSession(f)
              /\ UNCHANGED <<alive_time, authenticated, ka, keep_alive_handle>>
         ELSE /\ session' = LoginSession(f)
              /\ alive_time' = LoginAliveTime(f.body)
              /\ authenticated' = TRUE
              /\ start_keep_alive
              /\ Return("login", "Ok_true", TRUE, TRUE, f)
    ELSE /\ Return("login", "Ok_false", TRUE, TRUE, f)
         /\ session' = StoredSession(f)
         /\ UNCHANGED <<alive_time, authenticated, ka, keep_alive_handle>>

\* get_command, lines 167-175: the value it returns, which is
\* reply[command] (an object without Ret) when Ret is a success and the
\* reply has that key, and the reply itself otherwise
GetCommandValue(body) ==
    IF RetOk(body) /\ body.HasCmd THEN NoBody ELSE body

\* start_alarm_monitoring, lines 69-75: the reply is refused (AlarmRefused);
\* AlarmRefusedNever refuses none
AlarmRefusedNever(value) == FALSE
AlarmRefused(value) == HasRet(value) /\ AsU32(value) \notin OK_CODES

\* Alarm::start_alarm_monitoring, lines 69-80, on the reply; the alarm
\* worker of start_alarm_worker is spawned
StartAlarmReply(f) ==
    IF AlarmRefused(GetCommandValue(f.body))
    THEN /\ Return("start_alarm", "ProtocolError", TRUE, TRUE, f)
         /\ UNCHANGED <<alarm_monitoring, alarm_worker, alarm_handle>>
    ELSE /\ alarm_monitoring' = TRUE
         /\ alarm_worker' = "check" /\ alarm_handle' = TRUE
         /\ Return("start_alarm", "Ok", TRUE, TRUE, f)

\* send_command_recv_bin, lines 113-133: header and body of the next frame
\* in the socket are read as the reply, and the verb goes on with it
RecvReply(f) ==
    /\ pc = "hdr" /\ inbox # <<>> /\ f \in Arrived(Head(inbox))
    /\ ~f.stalled
    /\ inbox' = Tail(inbox)
    /\ stream_lock' = "free"
    /\ CASE op = "login" ->
              /\ LoginReply(f)
              /\ UNCHANGED <<alarm_monitoring, alarm_worker, alarm_handle>>
         [] op = "start_alarm" ->
              /\ StartAlarmReply(f)
              /\ session' = StoredSession(f)
              /\ UNCHANGED <<alive_time, authenticated, ka, keep_alive_handle>>
         [] op = "get" ->
              /\ Return("get", "Ok", TRUE, TRUE, f)
              /\ session' = StoredSession(f)
              /\ UNCHANGED <<alive_time, authenticated, ka,
                             keep_alive_handle, alarm_monitoring,
                             alarm_worker, alarm_handle>>
    /\ UNCHANGED <<connected, monitoring, packet_count, recv_handle,
                   send_handle, reader, writer, stream, peer_closed,
                   wire_last, dev_left, pre, calls, abort_log, lifecycle,
                   delivered, alarm_callback, mux>>
    /\ UNCHANGED ext

\* Alarm::stop_alarm_monitoring
stop_alarm_monitoring ==
    /\ pc = "idle"
    /\ Call
    /\ alarm_monitoring' = FALSE
    /\ alarm_handle' = FALSE
    /\ alarm_worker' = IF alarm_handle /\ alarm_worker \in {"check", "hdr"}
                       THEN "aborted" ELSE alarm_worker
    /\ stream_lock' = IF alarm_handle /\ alarm_worker = "hdr"
                      THEN "free" ELSE stream_lock
    /\ Return("stop_alarm", "Ok", FALSE, FALSE, NoFrame)
    /\ UNCHANGED <<connected, authenticated, monitoring, atoms,
                   keep_alive_handle, recv_handle, send_handle, ka, reader,
                   writer, stream, inbox, peer_closed, wire_last, dev_left,
                   abort_log, lifecycle, delivered, alarm_callback, mux>>
    /\ UNCHANGED ext

\* Alarm::set_alarm_callback and clear_alarm_callback
set_alarm_callback ==
    /\ pc = "idle"
    /\ Call
    /\ alarm_callback' = ~alarm_callback
    /\ Return("set_alarm_callback", "Ok", FALSE, FALSE, NoFrame)
    /\ UNCHANGED <<flags, atoms, handles, tasks, sock, abort_log,
                   lifecycle, delivered, mux>>
    /\ UNCHANGED ext

\* JoinHandle::abort on a task
Aborted(state) ==
    IF state \in {"running", "sleep"} THEN "aborted" ELSE state

\* the aborts of close() in the order it makes them
CloseAborts ==
    (IF keep_alive_handle # 0 THEN <<"keep_alive">> ELSE <<>>)
    \o (IF recv_handle THEN <<"reader">> ELSE <<>>)
    \o (IF send_handle THEN <<"writer">> ELSE <<>>)

\* close, line 165: what close() returns (CloseResult); CloseResultChecked
\* is a close() that reports a session that is not open
CloseResultChecked == IF lifecycle = "open" THEN "Ok" ELSE "ConnectionError"
CloseResult == "Ok"

\* Connection::close
close ==
    /\ pc = "idle"
    /\ Call
    /\ connected' = FALSE /\ authenticated' = FALSE
    /\ monitoring' = FALSE /\ alarm_monitoring' = FALSE
    /\ ka' = IF keep_alive_handle # 0
             THEN [ka EXCEPT ![keep_alive_handle] = Aborted(@)] ELSE ka
    /\ keep_alive_handle' = 0
    /\ reader' = IF recv_handle THEN Aborted(reader) ELSE reader
    /\ recv_handle' = FALSE
    /\ writer' = IF send_handle THEN Aborted(writer) ELSE writer
    /\ send_handle' = FALSE
    /\ abort_log' = CloseAborts
    /\ lifecycle' = IF lifecycle = "new" THEN "new" ELSE "closed"
    /\ Return("close", CloseResult, FALSE, FALSE, NoFrame)
    /\ UNCHANGED <<atoms, alarm_handle, alarm_worker, sock, delivered,
                   alarm_callback, mux>>
    /\ UNCHANGED ext

(***************************************************************************)
(* The keep-alive task of start_keep_alive.                                *)
(***************************************************************************)
\* lines 212-214: the test at the top of the loop, made after a write
KeepAliveLoop(k) == IF connected THEN "sleep" ELSE "done"

\* lines 216-255: the sleep ends; the stream is locked and a KeepAlive
\* frame with counter 0 is written; then the loop test
KeepAliveSend(k) ==
    /\ ka[k] = "sleep" /\ stream_lock = "free"
    /\ IF ~stream
       THEN /\ connected' = FALSE
            /\ ka' = [ka EXCEPT ![k] = "done"]
            /\ UNCHANGED wire_last
       ELSE \/ /\ wire_last' = WireFrame(KeepAliveCode, session, 0)
               /\ ka' = [ka EXCEPT ![k] = KeepAliveLoop(k)]
               /\ UNCHANGED connected
            \/ \* the write fails
               /\ peer_closed
               /\ connected' = FALSE
               /\ ka' = [ka EXCEPT ![k] = "done"]
               /\ UNCHANGED wire_last
    /\ UNCHANGED <<authenticated, monitoring, alarm_monitoring, atoms,
                   handles, alarm_worker, reader, writer, stream, stream_lock,
                   inbox, peer_closed, dev_left, caller, hist, alarm_callback,
                   mux>>
    /\ UNCHANGED ext

(***************************************************************************)
(* The alarm worker of start_alarm_worker.                                 *)
(***************************************************************************)
\* lines 273-276 and 324-326: the loop test, then the lock of the stream
AlarmWorkerLoop ==
    /\ alarm_worker = "check"
    /\ IF ~(alarm_monitoring /\ connected)
       THEN alarm_worker' = "done" /\ UNCHANGED stream_lock
       ELSE /\ stream_lock = "free"
            /\ IF stream
               THEN alarm_worker' = "hdr" /\ stream_lock' = "alarm"
               ELSE alarm_worker' = "done" /\ UNCHANGED stream_lock
    /\ UNCHANGED <<flags, atoms, handles, ka, reader, writer, stream, inbox,
                   peer_closed, wire_last, dev_left, caller, hist,
                   alarm_callback, mux>>
    /\ UNCHANGED ext

\* what became of an inbound frame, and what the alarm-monitoring flag and
\* the waiter table were when it was dispatched
Delivery(to, f) ==
    [to |-> to, packet_count |-> f.packet_count, msg_id |-> f.msg_id,
     alarm_monitoring |-> alarm_monitoring,
     waiter |-> (f.packet_count \in DOMAIN message_handlers),
     session |-> f.session]

\* lines 278-310: a header is read.  An alarm frame of the session is read
\* whole, counted, and given to the callback; of any other frame the body
\* stays in the socket.
AlarmWorkerRecv(f) ==
    /\ alarm_worker = "hdr" /\ inbox # <<>> /\ f \in Arrived(Head(inbox))
    /\ IF f.msg_id = AlarmInfoCode /\ f.session = session
       THEN IF f.stalled
            THEN \* "Timeout receiving data"
                 /\ connected' = FALSE
                 /\ alarm_worker' = "done"
                 /\ inbox' = Tail(inbox)
                 /\ UNCHANGED <<packet_count, delivered>>
            ELSE /\ packet_count' = packet_count + 1
                 /\ delivered' = IF alarm_callback
                                  THEN <<Delivery("worker_callback", f)>>
                                  ELSE delivered
                 /\ inbox' = Tail(inbox)
                 /\ alarm_worker' = "check"
                 /\ UNCHANGED connected
       ELSE /\ inbox' = IF f = Residue THEN Tail(inbox)
                        ELSE <<"residue">> \o Tail(inbox)
            /\ alarm_worker' = "check"
            /\ UNCHANGED <<connected, packet_count, delivered>>
    /\ stream_lock' = "free"
    /\ UNCHANGED <<authenticated, monitoring, alarm_monitoring, session,
                   alive_time, handles, ka, reader, writer, stream,
                   peer_closed, wire_last, dev_left, caller, pre, calls,
                   last, abort_log, lifecycle, alarm_callback, mux>>
    /\ UNCHANGED ext

\* lines 311-317: the device has closed the connection
AlarmWorkerFails ==
    /\ alarm_worker = "hdr" /\ inbox = <<>> /\ peer_closed
    /\ connected' = FALSE
    /\ alarm_worker' = "done"
    /\ stream_lock' = "free"
    /\ UNCHANGED <<authenticated, monitoring, alarm_monitoring, atoms,
                   handles, ka, reader, writer, stream, inbox, peer_closed,
                   wire_last, dev_left, caller, hist, alarm_callback, mux>>
    /\ UNCHANGED ext

(***************************************************************************)
(* The reader task of connect(), and the device.                           *)
(***************************************************************************)
\* connect, lines 64-72: read_exact fails and expect() panics; the task
\* ends and nothing else changes
ReaderPanics ==
    /\ reader = "running" /\ peer_closed
    /\ reader' = "panicked"
    /\ UNCHANGED <<flags, atoms, handles, ka, alarm_worker, writer, sock,
                   caller, hist, alarm_callback, mux>>
    /\ UNCHANGED ext

\* the device sends a frame
DeviceSends(entry) ==
    /\ lifecycle # "new" /\ ~peer_closed
    /\ dev_left > 0
    /\ inbox' = Append(inbox, entry)
    /\ dev_left' = dev_left - 1
    /\ UNCHANGED <<flags, atoms, handles, tasks, stream, stream_lock,
                   peer_closed, wire_last, caller, hist, alarm_callback, mux>>
    /\ UNCHANGED ext

\* the device closes the connection
DeviceCloses ==
    /\ lifecycle # "new" /\ ~peer_closed
    /\ peer_closed' = TRUE
    /\ UNCHANGED <<flags, atoms, handles, tasks, stream, stream_lock, inbox,
                   wire_last, dev_left, caller, hist, alarm_callback, mux>>
    /\ UNCHANGED ext

(***************************************************************************)
(* The session: the caller, the tasks and the device.                      *)
(***************************************************************************)
Next ==
    \/ connect
    \/ LoginCall
    \/ \E o \in {"get", "start_alarm"} : RequestCall(o)
    \/ SendLocked
    \/ \E f \in DeviceFrames \cup {Residue} : RecvReply(f)
    \/ \E f \in DeviceFrames \cup {Residue} : RecvHeaderStalled(f)
    \/ RecvHeaderFails
    \/ RecvBodyFails
    \/ Tick
    \/ stop_alarm_monitoring
    \/ set_alarm_callback
    \/ close
    \/ \E k \in KaIds : KeepAliveSend(k)
    \/ AlarmWorkerLoop
    \/ \E f \in DeviceFrames \cup {Residue} : AlarmWorkerRecv(f)
    \/ AlarmWorkerFails
    \/ ReaderPanics
    \/ DeviceSends("frame")
    \/ DeviceCloses

Spec == Init /\ [][Next]_vars

(***************************************************************************)
(* The session contract.                                                   *)
(***************************************************************************)
\* the value of the well-formed session ids the device sends
SidValue(sid) == CASE sid = Sid1234 -> 4660 [] sid = Sid2A -> 42 [] OTHER -> -1

\* login has returned and the last reply it read is known
LoginReturned == pc = "idle" /\ last.op = "login" /\ last.replied

\* C1: when login reads a reply whose Ret is 100 or 515, whose SessionID is
\* "0x" followed by the hex digits of h and whose AliveInterval is a, it
\* returns true, and on return the session id is h, the keep-alive period
\* is a, the authenticated flag is set and a new keep-alive task has been
\* started.
C1_LoginSuccess ==
    (/\ LoginReturned
     /\ RetIn(last.reply, OK_CODES)
     /\ last.reply.HasSessionID /\ SidValue(last.reply.SessionID) >= 0
     /\ last.reply.AliveInterval >= 0)
    => /\ last.result = "Ok_true"
       /\ session = SidValue(last.reply.SessionID)
       /\ alive_time = last.reply.AliveInterval
       /\ authenticated
       /\ keep_alive_handle # 0
       /\ keep_alive_handle # pre.keep_alive_handle
       /\ ka[keep_alive_handle] \in {"sleep", "done"}
       /\ KeepAliveSpawned = pre.spawned + 1

\* a login answered with Ret 100, SessionID "0x00001234", AliveInterval 20
\* has returned true
C1_Witness ==
    /\ LoginReturned /\ last.result = "Ok_true"
    /\ last.reply.Ret = 100 /\ last.reply.SessionID = Sid1234
    /\ session = 4660 /\ alive_time = 20 /\ authenticated

\* C2, as stated: when the login reply carries a Ret that is not 100 or
\* 515, login returns Ok(false), the authenticated flag is false, the
\* session id and the keep-alive interval are what they were at the call,
\* and no keep-alive task has been started.
C2_FailedLoginKeepsSession ==
    (LoginReturned /\ HasRet(last.reply) /\ ~RetIn(last.reply, OK_CODES))
    => /\ last.result = "Ok_false"
       /\ ~authenticated
       /\ session = pre.session
       /\ alive_time = pre.alive_time
       /\ keep_alive_handle = pre.keep_alive_handle
       /\ KeepAliveSpawned = pre.spawned

\* C2, amended: when the login reply carries a Ret whose low 32 bits are
\* not 100 or 515, login returns Ok(false), the authenticated flag, the
\* keep-alive interval and the keep-alive task are what they were at the
\* call, and the session id is the session field of the reply's header.
C2_FailedLoginTakesHeaderSession ==
    (LoginReturned /\ HasRet(last.reply) /\ last.reply.Ret \notin OK_CODES)
    => /\ last.result = "Ok_false"
       /\ authenticated = pre.authenticated
       /\ session = last.hdr_session
       /\ alive_time = pre.alive_time
       /\ keep_alive_handle = pre.keep_alive_handle
       /\ KeepAliveSpawned = pre.spawned

\* a login on an authenticated session was refused with Ret 106: the
\* session id went from 0x1234 to the header's 66 and the flag stayed set
C2_Witness ==
    /\ LoginReturned /\ last.result = "Ok_false" /\ last.reply.Ret = 106
    /\ pre.session = 4660 /\ session = 66 /\ authenticated

\* a background task of the session that is still at work: a keep-alive
\* task that will write when its sleep ends, the alarm worker in its read,
\* the reader or the writer in its loop
TaskAtWork ==
    \/ \E k \in KaIds : ka[k] = "sleep"
    \/ alarm_worker = "hdr"
    \/ reader = "running"
    \/ writer = "running"

\* C3: after close() has returned the connected, authenticated, monitoring
\* and alarm-monitoring flags are false, the keep-alive task, the reader
\* and the writer have been aborted in that order, and no background task
\* of the session keeps running.
C3_CloseStopsEverything ==
    (pc = "idle" /\ last.op = "close")
    => /\ ~connected /\ ~authenticated /\ ~monitoring /\ ~alarm_monitoring
       /\ abort_log \in {<<>>, <<"keep_alive", "reader", "writer">>,
                          <<"reader", "writer">>}
       /\ ~TaskAtWork

\* the second part of C3's statement taken alone fails; the first part
\* holds: the flags are false and the aborts are made in order
C3_FlagsAndOrder ==
    (pc = "idle" /\ last.op = "close")
    => /\ ~connected /\ ~authenticated /\ ~monitoring /\ ~alarm_monitoring
       /\ abort_log \in {<<>>, <<"keep_alive", "reader", "writer">>,
                          <<"reader", "writer">>}

\* C4: close() called again after close() returns Ok and changes nothing
\* of the session: flags, session id, counters, handles, tasks, socket and
\* tables are what the first close() left.
C4_CloseIdempotent ==
    [][(pc = "idle" /\ last.op = "close" /\ calls' = calls + 1
          /\ last'.op = "close")
       => /\ last'.result = "Ok"
          /\ UNCHANGED <<flags, atoms, handles, tasks, sock, lifecycle,
                         alarm_callback, mux>>]_vars

\* close() has returned for the second time in a row on a session that
\* had been connected: it found no handle to abort
C4_Witness ==
    /\ pc = "idle" /\ last.op = "close" /\ last.result = "Ok"
    /\ lifecycle = "closed" /\ abort_log = <<>> /\ calls >= 3

\* C6: after close() has returned no KeepAlive frame is written.
C6_NoKeepAliveAfterClose ==
    ~(wire_last.msg_id = KeepAliveCode /\ wire_last.after_close)

\* C7: a request that waits for its reply does not wait beyond the
\* operation timeout.
C7_WaitIsBounded ==
    pc \in {"hdr", "body"} => waited <= Timeout

\* C8: a request issued while the connection is down (never connected,
\* closed, or the reader has met a read error) returns ConnectionError (the
\* I/O error of a write is taken for one) and has written no frame.  login
\* connects before it sends and is left out.
C8_DownMeansNoFrame ==
    (pc = "idle" /\ last.op \in {"get", "start_alarm"} /\ pre.down)
    => last.result \in {"ConnectionError", "IoError"} /\ ~last.wrote

\* start_alarm_monitoring has returned
AlarmStartReturned == pc = "idle" /\ last.op = "start_alarm"

\* C9, as stated: start_alarm_monitoring sets the alarm-monitoring flag
\* only when the AlarmSet reply is a success (Ret 100 or 515); when the
\* reply's Ret is another value it returns ProtocolError and the flag is
\* what it was at the call.
C9_FlagOnlyOnSuccess ==
    AlarmStartReturned
    => /\ (alarm_monitoring /\ ~pre.alarm_monitoring)
            => (last.replied /\ RetIn(last.reply, OK_CODES))
       /\ (last.replied /\ HasRet(last.reply) /\ ~RetIn(last.reply, OK_CODES))
            => (last.result = "ProtocolError"
                /\ alarm_monitoring = pre.alarm_monitoring)

\* C9, amended: when the AlarmSet reply carries an integer Ret whose low 32
\* bits are not 100 or 515, start_alarm_monitoring returns ProtocolError and
\* the flag is what it was at the call; on every other reply (a success, or
\* a reply without an integer Ret) it sets the flag and returns Ok; without
\* a reply it returns an error and the flag is what it was.
C9_FlagUnlessRefused ==
    AlarmStartReturned
    => /\ ~last.replied
            => (last.result \in {"ConnectionError", "IoError"}
                /\ alarm_monitoring = pre.alarm_monitoring)
       /\ (last.replied /\ HasRet(last.reply) /\ last.reply.Ret \notin OK_CODES)
            => (last.result = "ProtocolError"
                /\ alarm_monitoring = pre.alarm_monitoring)
       /\ (last.replied /\ ~(HasRet(last.reply) /\ last.reply.Ret \notin OK_CODES))
            => (last.result = "Ok" /\ alarm_monitoring)

\* start_alarm_monitoring was answered with Ret 106 and refused
C9_Witness ==
    /\ AlarmStartReturned /\ last.replied /\ last.reply.Ret = 106
    /\ last.result = "ProtocolError" /\ ~alarm_monitoring

(***************************************************************************)
(* The multiplexer: the writer and the reader of connect(), and the upload *)
(* of upgrade(), which submits its blocks to the writer with a response    *)
(* sink.                                                                   *)
(***************************************************************************)
\* CommandRequest: header fields, with_counter, with_response
Request(msg, cnt, internal, wants) ==
    [msg_id |-> msg, packet_count |-> cnt, use_internal_counter |-> internal,
     wants_response |-> wants]

\* upgrade, lines 56-68: the upload begins
UpgradeCall ==
    /\ pc = "idle"
    /\ Call
    /\ pc' = "up_send" /\ op' = "upgrade" /\ last' = NoCall
    /\ blocknum' = 0 /\ ack' = NoFrame
    /\ UNCHANGED <<flags, atoms, handles, tasks, sock, cur, waited, abort_log,
                   lifecycle, delivered, alarm_callback, message_handlers,
                   stream_handlers, chan, send_pool, wcount>>
    /\ UNCHANGED ext

\* upgrade, lines 81-96 and 142-156: the request for a block bears the
\* block number and with_counter(false) (BlockRequest); BlockRequestAuto
\* is an upload that leaves the counter to the writer
BlockRequestAuto(n) == Request(UpgradeCode, n, TRUE, TRUE)
BlockRequest(n) == Request(UpgradeCode, n, FALSE, TRUE)

\* upgrade, lines 70-102 and 140-162: the next data block, or the empty
\* block after the last one, goes to the writer with the block number as
\* its counter
UpgradeSubmit ==
    /\ pc = "up_send"
    /\ IF writer # "running"
       THEN \* the writer's end of the queue is gone
            /\ Return("upgrade", "ConnectionError", FALSE, FALSE, NoFrame)
            /\ UNCHANGED send_pool
       ELSE /\ send_pool' = Append(send_pool, BlockRequest(blocknum))
            /\ pc' = IF blocknum < MaxBlocks THEN "up_wait" ELSE "up_eof"
            /\ UNCHANGED <<op, cur, waited, last>>
    /\ UNCHANGED <<flags, atoms, handles, tasks, sock, pre, calls, abort_log,
                   lifecycle, delivered, alarm_callback, message_handlers,
                   stream_handlers, chan, wcount, ack, blocknum>>
    /\ UNCHANGED ext

\* connect, lines 108-120: the key a response sink is registered under
\* (WaiterKey); WaiterKeySame is the key without the three exceptions
WaiterKeySame(msg, cnt) == cnt
WaiterKey(msg, cnt) == IF msg \in NextCounterCodes THEN cnt + 1 ELSE cnt

\* DashMap::insert
Insert(map, key, value) ==
    [k \in DOMAIN map \cup {key} |-> IF k = key THEN value ELSE map[k]]

\* connect, lines 98-139: one turn of the writer loop
WriterStep ==
    /\ writer = "running" /\ send_pool # <<>>
    /\ LET r == Head(send_pool)
           cnt == IF r.use_internal_counter THEN wcount ELSE r.packet_count
       IN /\ send_pool' = Tail(send_pool)
          /\ message_handlers' =
                IF r.wants_response
                THEN Insert(message_handlers, WaiterKey(r.msg_id, cnt), cnt)
                ELSE message_handlers
          /\ \/ /\ wire_last' = WireFrame(r.msg_id, session, cnt)
                /\ dev_left' = dev_left + 1
                /\ wcount' = IF r.use_internal_counter THEN wcount + 1
                             ELSE wcount
                /\ UNCHANGED writer
             \/ \* the write fails and expect() panics
                /\ peer_closed
                /\ writer' = "panicked"
                /\ UNCHANGED <<wire_last, dev_left, wcount>>
    /\ UNCHANGED <<flags, atoms, handles, ka, alarm_worker, reader, stream,
                   stream_lock, inbox, peer_closed, caller, hist,
                   alarm_callback, stream_handlers, chan, ack, blocknum>>
    /\ UNCHANGED ext

\* connect, lines 74-92: where the reader sends a frame (Route);
\* RouteAlarmAlways is a reader that does not test the alarm flag
RouteAlarmAlways(f) ==
    IF f.msg_id = VideoCode /\ monitoring THEN "video"
    ELSE IF f.msg_id = AlarmInfoCode THEN "alarm"
    ELSE IF f.packet_count \in DOMAIN message_handlers THEN "waiter"
    ELSE IF f.msg_id \in stream_handlers THEN "handler"
    ELSE "discard"
Route(f) ==
    IF f.msg_id = VideoCode /\ monitoring THEN "video"
    ELSE IF f.msg_id = AlarmInfoCode /\ alarm_monitoring THEN "alarm"
    ELSE IF f.packet_count \in DOMAIN message_handlers THEN "waiter"
    ELSE IF f.msg_id \in stream_handlers THEN "handler"
    ELSE "discard"

\* __handle_alarm: the alarm callback, when one is installed, gets the event
HandleAlarm(f) ==
    delivered' = <<Delivery(IF alarm_callback THEN "alarm_callback"
                             ELSE "no_callback", f)>>

\* __handle_video: the frame goes to the frame callback
HandleVideo(f) ==
    delivered' = <<Delivery("video", f)>>

\* DashMap::remove (Without); Kept is a table that gives the entry and
\* keeps it
Kept(map, key) == map
Without(map, key) == [k \in DOMAIN map \ {key} |-> map[k]]

\* the frames the channel of a download holds: channel(100) of stream_file
\* and download_file, scaled down
MaxQueued == 2

\* the capacity of the channel the handlers send into: the listener's of
\* the upgrade, or a download's
Cap == IF UpgradeCode \in stream_handlers THEN ListenerCap ELSE MaxQueued

\* the download has returned and left its handlers registered: the
\* receiving end of their channel is dropped
ReceiverGone == dl_pc = "done" /\ stream_handlers \cap StreamIds # {}

\* connect, line 91: handler.send(...).await waits while the channel is
\* full, and fails at once, the frame lost, when the receiver is gone
\* (Send); TrySend is a reader that does not wait and loses the frame
\* when the channel is full
TrySend(ch, f) ==
    [waits |-> FALSE,
     chan |-> IF ReceiverGone \/ Len(ch) >= Cap THEN ch ELSE Append(ch, f)]
Send(ch, f) ==
    IF ReceiverGone THEN [waits |-> FALSE, chan |-> ch]
    ELSE [waits |-> Len(ch) >= Cap, chan |-> Append(ch, f)]

\* connect, lines 62-93: one turn of the reader loop.  The send into the
\* channel of a stream handler waits for room in the channel.
ReaderStep(f) ==
    /\ reader = "running" /\ inbox # <<>> /\ f \in Arrived(Head(inbox))
    /\ ~f.stalled
    /\ inbox' = Tail(inbox)
    /\ CASE Route(f) = "video" ->
              /\ HandleVideo(f)
              /\ UNCHANGED <<message_handlers, chan, ack>>
         [] Route(f) = "alarm" ->
              /\ HandleAlarm(f)
              /\ UNCHANGED <<message_handlers, chan, ack>>
         [] Route(f) = "waiter" ->
              /\ message_handlers' = Without(message_handlers, f.packet_count)
              /\ ack' = f
              /\ delivered' = <<Delivery("waiter", f)>>
              /\ UNCHANGED chan
         [] Route(f) = "handler" ->
              /\ ~Send(chan, f).waits
              /\ chan' = Send(chan, f).chan
              /\ delivered' = <<Delivery("handler", f)>>
              /\ UNCHANGED <<message_handlers, ack>>
         [] Route(f) = "discard" ->
              /\ delivered' = <<Delivery("discard", f)>>
              /\ UNCHANGED <<message_handlers, chan, ack>>
    /\ UNCHANGED <<flags, atoms, handles, tasks, stream, stream_lock,
                   peer_closed, wire_last, dev_left, caller, pre, calls, last,
                   abort_log, lifecycle, alarm_callback, stream_handlers,
                   send_pool, wcount, blocknum>>
    /\ UNCHANGED ext

\* upgrade, lines 104-137: the upload is given a frame for its block.  A
\* frame of the upload's message id with a Ret other than 100 ends the
\* upgrade, which returns that reply; after any other frame the next
\* block follows.
UpgradeAck ==
    /\ pc = "up_wait" /\ ack # NoFrame
    /\ ack' = NoFrame
    /\ IF /\ ack.msg_id = UpgradeCode /\ HasRet(ack.body)
          /\ ~RetIn(ack.body, {100})
       THEN /\ Return("upgrade", "Ok_reply", TRUE, TRUE, ack)
            /\ us_progress' = Said("Upgrade failed", 0)
            /\ UNCHANGED blocknum
       ELSE /\ blocknum' = blocknum + 1
            /\ us_progress' = Said("Uploading", blocknum + 1)
            /\ pc' = "up_send"
            /\ UNCHANGED <<op, cur, waited, last>>
    /\ UNCHANGED <<flags, atoms, handles, tasks, sock, pre, calls, abort_log,
                   lifecycle, delivered, alarm_callback, message_handlers,
                   stream_handlers, chan, send_pool, wcount>>
    /\ UNCHANGED <<files, download, talk, packet_header, held, recordings, wire, calc, us_sent, us_reply>>

\* upgrade, lines 164-168: the frame for the empty block is consumed and
\* the listener for the upload's message id is registered
UpgradeListenerStarts ==
    /\ pc = "up_eof" /\ ack # NoFrame
    /\ ack' = NoFrame
    /\ stream_handlers' = stream_handlers \cup {UpgradeCode}
    /\ chan' = <<>>
    /\ pc' = "up_listen"
    /\ UNCHANGED <<flags, atoms, handles, tasks, sock, op, cur, waited, hist,
                   alarm_callback, message_handlers, send_pool, wcount,
                   blocknum>>
    /\ UNCHANGED ext

\* upgrade, lines 181-191: the Ret values that end the listener's wait
\* (Terminal); TerminalAlso100 is a listener that takes 100 for an end
TerminalAlso100(reply) ==
    \/ RetIn(reply, {515, 100})
    \/ HasRet(reply) /\ AsU32(reply) \in {512, 513, 514}
Terminal(reply) ==
    \/ RetIn(reply, {515})
    \/ HasRet(reply) /\ AsU32(reply) \in {512, 513, 514}

\* upgrade, lines 170-208: the listener takes a frame from its channel;
\* Ret 515, 512, 513 or 514 ends the upgrade and the listener is removed
UpgradeListen ==
    /\ pc = "up_listen" /\ chan # <<>>
    /\ chan' = Tail(chan)
    /\ LET reply == Head(chan).body
       IN IF Terminal(reply)
          THEN /\ stream_handlers' = stream_handlers \ {UpgradeCode}
               /\ Return("upgrade", "Ok_reply", TRUE, TRUE, Head(chan))
               /\ us_progress' = IF RetIn(reply, {515})
                                 THEN Said("Upgrade successful", 0)
                                 ELSE Said("Upgrade failed", 0)
          ELSE /\ us_progress' = IF RetIn(reply, 0..100)
                                 THEN Said("Upgrading", reply.Ret)
                                 ELSE us_progress
               /\ UNCHANGED <<stream_handlers, caller, last>>
    /\ UNCHANGED <<flags, atoms, handles, tasks, sock, pre, calls, abort_log,
                   lifecycle, delivered, alarm_callback, message_handlers,
                   send_pool, wcount, ack, blocknum>>
    /\ UNCHANGED <<files, download, talk, packet_header, held, recordings, wire, calc, us_sent, us_reply>>

\* the response sink of the waiting upload is dropped: the writer ended
\* with the request still queued, or the reader and the writer, which hold
\* the waiter table, have both ended
SinkDropped ==
    /\ ack = NoFrame
    /\ writer # "running"
    /\ send_pool # <<>> \/ reader # "running"

\* upgrade, lines 104-108 and 164: the wait for the frame of a block ends
\* with an error, which ends the upgrade unless the block is the empty one
UpgradeSinkDropped ==
    /\ pc \in {"up_wait", "up_eof"} /\ SinkDropped
    /\ IF pc = "up_wait"
       THEN /\ Return("upgrade", "ConnectionError", FALSE, FALSE, NoFrame)
            /\ UNCHANGED <<stream_handlers, chan>>
       ELSE /\ stream_handlers' = stream_handlers \cup {UpgradeCode}
            /\ chan' = <<>>
            /\ pc' = "up_listen"
            /\ UNCHANGED <<op, cur, waited, last>>
    /\ UNCHANGED <<flags, atoms, handles, tasks, sock, pre, calls, abort_log,
                   lifecycle, delivered, alarm_callback, message_handlers,
                   send_pool, wcount, ack, blocknum>>
    /\ UNCHANGED ext

\* a session connect() has connected, on which start_alarm_monitoring has
\* or has not succeeded and a callback is or is not installed
MuxInit ==
    /\ connected = TRUE /\ authenticated = FALSE /\ monitoring = FALSE
    /\ alarm_monitoring \in BOOLEAN
    /\ alarm_handle = alarm_monitoring
    /\ alarm_worker = IF alarm_monitoring THEN "check" ELSE "none"
    /\ alarm_callback \in BOOLEAN
    /\ session = 0 /\ packet_count = 1 /\ alive_time = DefaultAliveTime
    /\ stream = TRUE /\ stream_lock = "free"
    /\ keep_alive_handle = 0 /\ recv_handle = TRUE /\ send_handle = TRUE
    /\ ka = [k \in KaIds |-> "none"]
    /\ reader = "running" /\ writer = "running"
    /\ inbox = <<>> /\ peer_closed = FALSE
    /\ wire_last = [msg_id |-> 0, session |-> 0, packet_count |-> 0,
                    after_close |-> FALSE]
    /\ dev_left = MaxEvents
    /\ pc = "idle" /\ op = "none" /\ cur = NoFrame /\ waited = 0
    /\ pre = [session |-> 0, alive_time |-> DefaultAliveTime,
              authenticated |-> FALSE, alarm_monitoring |-> FALSE,
              keep_alive_handle |-> 0, spawned |-> 0, down |-> TRUE]
    /\ calls = 0
    /\ last = NoCall
    /\ abort_log = <<>> /\ lifecycle = "open" /\ delivered = <<>>
    /\ message_handlers = EmptyMap /\ stream_handlers = {} /\ chan = <<>>
    /\ send_pool = <<>> /\ wcount = 1 /\ ack = NoFrame /\ blocknum = 0
    /\ ExtIdle

NextMux ==
    \/ UpgradeCall
    \/ UpgradeSubmit
    \/ WriterStep
    \/ \E f \in MuxFrames : ReaderStep(f)
    \/ UpgradeAck
    \/ UpgradeListenerStarts
    \/ UpgradeListen
    \/ UpgradeSinkDropped
    \/ stop_alarm_monitoring
    \/ set_alarm_callback
    \/ close
    \/ ReaderPanics
    \/ DeviceSends("mux")
    \/ DeviceCloses

SpecMux == MuxInit /\ [][NextMux]_vars

(***************************************************************************)
(* The multiplexer's contract.                                             *)
(***************************************************************************)
\* the alarm frames the reader dispatched while the alarm-monitoring flag
\* was clear
AlarmFramesUnmonitored ==
    { i \in DOMAIN delivered :
        delivered[i].msg_id = AlarmInfoCode /\ ~delivered[i].alarm_monitoring }

\* C10, as stated: an inbound frame with message id 1504 that the reader
\* dispatches while the alarm-monitoring flag is clear is discarded: it
\* goes neither to the alarm callback nor to a response waiter nor to a
\* stream handler.
C10_UnmonitoredAlarmDiscarded ==
    \A i \in AlarmFramesUnmonitored : delivered[i].to = "discard"

\* C10, amended: an inbound frame with message id 1504 that the reader
\* dispatches while the alarm-monitoring flag is clear never goes to the
\* alarm callback or to a stream handler; it goes to the response waiter
\* registered under its packet counter when there is one, and is discarded
\* otherwise.
C10_UnmonitoredAlarmToWaiterOrDiscarded ==
    \A i \in AlarmFramesUnmonitored :
        delivered[i].to = IF delivered[i].waiter THEN "waiter" ELSE "discard"

\* alarm monitoring was stopped, and an alarm frame dispatched after that
\* went to the waiter of an upload's block
C10_Witness ==
    /\ \E i \in AlarmFramesUnmonitored : delivered[i].to = "waiter"
    /\ alarm_worker = "aborted"

(***************************************************************************)
(* FileManagement::list_local_files.  A reply is the JSON object of an     *)
(* OPFileQuery answer: Ret (with RetHi), and the value under "OPFileQuery",*)
(* which is an array of entries (IsArray) or is not.  An entry is known by *)
(* the page and the place the device gave it; its BeginTime is a string    *)
(* (a number here) or is missing (-1).                                     *)
(***************************************************************************)
\* replies the device gives to one call, at most
MaxPages == 3
\* files.len() != 64
PageSize == 64
\* send_command(1440, ..)
FileQueryCode == 1440
\* start_time of the call
StartTime == 0

Entry(p, i, hasBegin) ==
    [page |-> p, index |-> i,
     BeginTime |-> IF hasBegin THEN p * 100 + i ELSE -1]

\* n entries, of which the last may lack its BeginTime
PageFiles(p, n, lastBegin) ==
    [i \in 1..n |-> Entry(p, i, i < n \/ lastBegin)]

FileReply(ret, isArray, entries) ==
    [Ret |-> ret, RetHi |-> 0, IsArray |-> isArray, files |-> entries]

\* the replies the device may give as the p-th: with or without Ret, with
\* no array, an empty one, a short one, a full one or a longer one.  The
\* last reply of a run is not a full page.
PagesAt(p) ==
    LET sizes == {0, 10, PageSize + 1}
                 \cup (IF p < MaxPages THEN {PageSize} ELSE {})
    IN { FileReply(r, FALSE, <<>>) : r \in {-1, 100, 101} }
       \cup { FileReply(r, TRUE, PageFiles(p, n, b)) :
                r \in {-1, 100, 101}, n \in sizes, b \in BOOLEAN }

\* lines 71-75: the first reply is refused
ListRefused(reply) == HasRet(reply) /\ ~RetIn(reply, {100})

\* lines 83-94: the test of the loop: a follow-up query is due
MoreToQuery(reply) ==
    /\ reply.IsArray
    /\ Len(reply.files) = PageSize
    /\ reply.files[Len(reply.files)].BeginTime >= 0

\* lines 88-99: the BeginTime of the follow-up query is that of files.last()
NextBeginFirst(entries) == entries[1].BeginTime
NextBegin(entries) == entries[Len(entries)].BeginTime

\* a query on the wire
FileQuery(begin) == [msg_id |-> FileQueryCode, BeginTime |-> begin]

\* lines 48-66: the call, up to the wait for the first reply
ListCall ==
    /\ lf_pc = "idle" /\ lf_out = "none"
    /\ lf_pc' = "wait"
    /\ lf_queries' = <<FileQuery(StartTime)>>
    /\ UNCHANGED <<lf_pages, lf_result, lf_out>>
    /\ UNCHANGED notFiles

\* lines 83-109 and 123: the loop test on the reply in hand, then the
\* follow-up query or the return
ListLoop(reply) ==
    IF MoreToQuery(reply)
    THEN /\ lf_queries' = Append(lf_queries, FileQuery(NextBegin(reply.files)))
         /\ UNCHANGED <<lf_pc, lf_out>>
    ELSE /\ lf_pc' = "done" /\ lf_out' = "Ok"
         /\ UNCHANGED lf_queries

\* lines 64-109: the first reply is read
ListFirstRead(reply) ==
    /\ lf_pc = "wait" /\ lf_pages = <<>>
    /\ lf_pages' = <<reply>>
    /\ IF ListRefused(reply)
       THEN /\ lf_result' = <<>>
            /\ lf_pc' = "done" /\ lf_out' = "Ok"
            /\ UNCHANGED lf_queries
       ELSE /\ lf_result' = IF reply.IsArray THEN reply.files ELSE <<>>
            /\ ListLoop(reply)

ListFirstReply(reply) ==
    /\ reply \in PagesAt(1)
    /\ ListFirstRead(reply)
    /\ UNCHANGED notFiles

\* lines 109-121, then 83-109 again: the reply to a follow-up query is read
ListNextRead(reply) ==
    /\ lf_pc = "wait" /\ lf_pages # <<>>
    /\ lf_pages' = Append(lf_pages, reply)
    /\ IF ~reply.IsArray \/ reply.files = <<>>
       THEN /\ lf_pc' = "done" /\ lf_out' = "Ok"
            /\ UNCHANGED <<lf_result, lf_queries>>
       ELSE /\ lf_result' = lf_result \o reply.files
            /\ ListLoop(reply)

ListNextReply(reply) ==
    /\ reply \in PagesAt(Len(lf_pages) + 1)
    /\ ListNextRead(reply)
    /\ UNCHANGED notFiles

\* lines 64-67 and 109-111: send_command fails, or gives no reply
ListFails ==
    /\ lf_pc = "wait"
    /\ lf_pc' = "done" /\ lf_out' = "Err"
    /\ UNCHANGED <<lf_pages, lf_queries, lf_result>>
    /\ UNCHANGED notFiles

FilesNext ==
    \/ ListCall
    \/ \E p \in 1..MaxPages : \E reply \in PagesAt(p) : ListFirstReply(reply)
    \/ \E p \in 1..MaxPages : \E reply \in PagesAt(p) : ListNextReply(reply)
    \/ ListFails

SpecFiles == Init /\ [][FilesNext]_vars

(***************************************************************************)
(* The contract of list_local_files.                                       *)
(***************************************************************************)
\* a page of exactly 64 entries whose last entry has a BeginTime
FullPage(reply) ==
    /\ reply.IsArray /\ Len(reply.files) = 64
    /\ reply.files[64].BeginTime >= 0

RECURSIVE AllEntries(_)
\* the entries of the pages, page after page
AllEntries(pages) ==
    IF pages = <<>> THEN <<>>
    ELSE (IF Head(pages).IsArray THEN Head(pages).files ELSE <<>>)
         \o AllEntries(Tail(pages))

\* the first reply is not one list_local_files refuses for its Ret
FirstAccepted ==
    lf_pages # <<>> /\ ~(lf_pages[1].Ret >= 0 /\ lf_pages[1].Ret # 100)

\* C11: once its first reply is accepted, list_local_files sends a follow-up
\* query exactly when the page it has just read holds exactly 64 entries of
\* which the last has a BeginTime; the follow-up carries that BeginTime; and
\* the list it returns is the pages' entries in order, page after page.
C11_Pagination ==
    FirstAccepted
    => /\ Len(lf_queries) <= Len(lf_pages) + 1
       /\ lf_pc = "wait" => Len(lf_queries) = Len(lf_pages) + 1
       /\ \A i \in DOMAIN lf_pages :
            /\ (i + 1 \in DOMAIN lf_queries) <=> FullPage(lf_pages[i])
            /\ (i + 1 \in DOMAIN lf_queries)
                 => lf_queries[i + 1] =
                      [msg_id |-> 1440,
                       BeginTime |-> lf_pages[i].files[64].BeginTime]
       /\ lf_out = "Ok" => lf_result = AllEntries(lf_pages)

\* pages of 64 and of 10 entries: 74 entries, all different, are returned
\* after two queries, the second with the BeginTime of the 64th entry
C11_Witness ==
    /\ lf_pc = "done" /\ lf_out = "Ok"
    /\ Len(lf_pages) = 2
    /\ Len(lf_pages[1].files) = 64 /\ Len(lf_pages[2].files) = 10
    /\ Len(lf_result) = 74
    /\ Cardinality({lf_result[i] : i \in DOMAIN lf_result}) = 74
    /\ Len(lf_queries) = 2
    /\ lf_queries[2].BeginTime = lf_result[64].BeginTime

\* C12: when a reply to an OPFileQuery carries a Ret other than 100,
\* list_local_files, which returns on reading it, returns an empty list
\* and no error.
C12_RefusedGivesEmpty ==
    (/\ lf_pc = "done" /\ lf_pages # <<>>
     /\ Len(lf_queries) = Len(lf_pages)
     /\ LET reply == lf_pages[Len(lf_pages)]
        IN reply.Ret >= 0 /\ reply.Ret # 100)
    => lf_out = "Ok" /\ lf_result = <<>>

(***************************************************************************)
(* FileManagement::stream_file and download_file on a connected session.   *)
(* The two run the same steps and differ in the consumer: the caller's     *)
(* channel, or the target file.  The handlers of the media ids are entries *)
(* of stream_handlers and their channel is chan; the reader of connect()   *)
(* fills it.                                                               *)
(***************************************************************************)
\* frames the device sends after a DownloadStart, at most
MaxMedia == 5
\* send_command(1424, claim_data, true)
ClaimCode == 1424
\* send_command(1420, .., false)
PlayBackCode == 1420

\* what the steps of a download leave alone
dlKeeps ==
    <<flags, session, alive_time, handles, tasks, stream, stream_lock, inbox,
      peer_closed, caller, hist, alarm_callback, message_handlers, send_pool,
      wcount, ack, blocknum, notDownload>>

\* send_command: the frame is numbered and written
DlWrite(msg) ==
    /\ packet_count' = packet_count + 1
    /\ wire_last' = WireFrame(msg, session, packet_count)

\* stream_file, lines 153-179, download_file, lines 251-277: what is done
\* once the reply to Claim is read
StartStepsLate == <<"ClaimReply", "DownloadStart", "Register">>
StartSteps == <<"ClaimReply", "Register", "DownloadStart">>

\* stream_file, lines 191-214, download_file, lines 288-313: what is done
\* once the loop has ended
EndStepsStopFirst == <<"Drained", "DownloadStop", "Deregister">>
EndSteps == <<"Drained", "Deregister", "DownloadStop">>

\* lines 182 and 283: header.data_len == 0 ends the stream
EndOfStreamNever(f) == FALSE
EndOfStream(f) == f.body.data_len = 0

\* the call, up to the wait for the reply to Claim; the request may fail
DownloadCall ==
    /\ dl_pc = "idle" /\ dl_out = "none"
    /\ \/ /\ DlWrite(ClaimCode)
          /\ dl_log' = <<"Claim">>
          /\ dl_pc' = "claim_wait"
          /\ UNCHANGED dl_out
       \/ /\ dl_pc' = "done" /\ dl_out' = "Err"
          /\ UNCHANGED <<packet_count, wire_last, dl_log>>
    /\ UNCHANGED <<stream_handlers, chan, dev_left, dl_taken, dl_consumed>>
    /\ UNCHANGED dlKeeps

\* the reply to Claim is read, the handlers are registered and DownloadStart
\* is written without a wait; from then on the device streams.  The wait
\* for the reply may fail, and so may the write of DownloadStart.
DownloadStart ==
    /\ dl_pc = "claim_wait"
    /\ \/ /\ stream_handlers' = stream_handlers \cup StreamIds
          /\ chan' = <<>>
          /\ \/ /\ DlWrite(PlayBackCode)
                /\ dl_log' = dl_log \o StartSteps
                /\ dev_left' = dev_left + MaxMedia
                /\ dl_pc' = "drain"
                /\ UNCHANGED dl_out
             \/ /\ dl_log' = dl_log \o SubSeq(StartSteps, 1, 2)
                /\ dl_pc' = "done" /\ dl_out' = "Err"
                /\ UNCHANGED <<packet_count, wire_last, dev_left>>
       \/ /\ dl_pc' = "done" /\ dl_out' = "Err"
          /\ UNCHANGED <<stream_handlers, chan, packet_count, wire_last,
                         dev_left, dl_log>>
    /\ UNCHANGED <<dl_taken, dl_consumed>>
    /\ UNCHANGED dlKeeps

\* lines 181-216 and 282-315: the loop takes a frame from the channel.  The
\* empty frame ends the loop: the handlers are removed and DownloadStop is
\* written.  Any other frame goes to the consumer, which may fail; the
\* call then returns the error at once.
DownloadTake ==
    /\ dl_pc = "drain" /\ chan # <<>>
    /\ chan' = Tail(chan)
    /\ dl_taken' = Append(dl_taken, Head(chan))
    /\ IF EndOfStream(Head(chan))
       THEN /\ stream_handlers' = stream_handlers \ StreamIds
            /\ UNCHANGED dl_consumed
            /\ \/ /\ DlWrite(PlayBackCode)
                  /\ dl_log' = dl_log \o EndSteps
                  /\ dl_pc' = "done" /\ dl_out' = "Ok"
               \/ /\ dl_log' = dl_log \o SubSeq(EndSteps, 1, 2)
                  /\ dl_pc' = "done" /\ dl_out' = "Err"
                  /\ UNCHANGED <<packet_count, wire_last>>
       ELSE /\ \/ /\ dl_consumed' = Append(dl_consumed, Head(chan))
                  /\ UNCHANGED <<dl_pc, dl_out>>
               \/ /\ dl_pc' = "done" /\ dl_out' = "Err"
                  /\ UNCHANGED dl_consumed
            /\ UNCHANGED <<stream_handlers, packet_count, wire_last, dl_log>>
    /\ UNCHANGED dev_left
    /\ UNCHANGED dlKeeps

DownloadNext ==
    \/ DownloadCall
    \/ DownloadStart
    \/ DownloadTake
    \/ \E f \in MediaFrames : ReaderStep(f)
    \/ DeviceSends("media")
    \/ DeviceCloses
    \/ ReaderPanics

SpecDownload == MuxInit /\ [][DownloadNext]_vars

(***************************************************************************)
(* The contract of stream_file and download_file.                          *)
(***************************************************************************)
RECURSIVE BeforeEmpty(_)
\* the frames of a sequence that come before its first empty frame
BeforeEmpty(frames) ==
    IF frames = <<>> \/ Head(frames).body.data_len = 0 THEN <<>>
    ELSE <<Head(frames)>> \o BeforeEmpty(Tail(frames))

\* the frames the reader has handed to the handlers, in the order of their
\* arrival: those the loop has taken, then those still in the channel
Handed == dl_taken \o chan

\* how often a step occurs in what the call has done
Times(step) == Cardinality({i \in DOMAIN dl_log : dl_log[i] = step})

\* C13: the consumer is given exactly the frames that arrive before the
\* first frame with data_len 0, in the order of their arrival, and none
\* after it; DownloadStop is then sent, once.
C13_StreamEndsAtEmptyFrame ==
    /\ dl_out # "Err" => dl_consumed = BeforeEmpty(dl_taken)
    /\ Times("DownloadStop") <= 1
    /\ dl_out = "Ok"
         => /\ dl_consumed = BeforeEmpty(Handed)
            /\ dl_taken # <<>> /\ dl_taken[Len(dl_taken)].body.data_len = 0
            /\ Times("DownloadStop") = 1
            /\ dl_log[Len(dl_log)] = "DownloadStop"
            /\ wire_last.msg_id = 1420

\* the fifth frame is the empty one: four frames were delivered and
\* DownloadStop was sent
C13_Witness ==
    /\ dl_out = "Ok" /\ Len(dl_taken) = 5 /\ Len(dl_consumed) = 4
    /\ dl_consumed = SubSeq(dl_taken, 1, 4)
    /\ dl_consumed[1] # dl_consumed[2]
    /\ dl_log[Len(dl_log)] = "DownloadStop"

\* s is the beginning of t
IsPrefix(s, t) == Len(s) <= Len(t) /\ s = SubSeq(t, 1, Len(s))

\* C14, as stated: Claim is sent and its reply awaited, the handlers are
\* registered, DownloadStart is submitted, the frames are drained,
\* DownloadStop is submitted, and only then are the handlers deregistered.
C14_StopThenDeregister ==
    IsPrefix(dl_log, <<"Claim", "ClaimReply", "Register", "DownloadStart",
                       "Drained", "DownloadStop", "Deregister">>)

\* C14, amended: Claim is sent and its reply awaited, the handlers are
\* registered, DownloadStart is submitted, the frames are drained, the
\* handlers are deregistered, and only then is DownloadStop submitted.  The
\* handlers are registered when DownloadStart reaches the wire and are no
\* longer registered when DownloadStop is submitted.
C14_DeregisterThenStop ==
    /\ IsPrefix(dl_log, <<"Claim", "ClaimReply", "Register", "DownloadStart",
                          "Drained", "Deregister", "DownloadStop">>)
    /\ dl_pc = "drain" => StreamIds \subseteq stream_handlers
    /\ Times("Register") = 0 => stream_handlers \cap StreamIds = {}
    /\ Times("Deregister") = 1 => stream_handlers \cap StreamIds = {}

\* a download has run to its end
C14_Witness ==
    /\ dl_out = "Ok" /\ Len(dl_log) = 7
    /\ dl_log[6] = "Deregister" /\ dl_log[7] = "DownloadStop"
    /\ stream_handlers = {}

(***************************************************************************)
(* upgrade, from its first request: the request that starts the upgrade    *)
(* goes through set_command, and the upload above follows when the device  *)
(* accepts it.                                                             *)
(***************************************************************************)
\* QCODES.get("OPSystemUpgrade")
QCodeSystemUpgrade == 1525

\* the code upgrade gives to set_command: Some(0x5F0), or None
NoCode == -1
UpgradeStartCode == 1520

\* set_command: code.unwrap_or_else(|| QCODES.get(command)...)
SetMsgId(code, qcode) == IF code # NoCode THEN code ELSE qcode

\* the replies to the request that starts the upgrade
StartReplies ==
    { Body(r[1], r[2], FALSE, <<>>, -1, FALSE) :
        r \in {<<100, 0>>, <<515, 0>>, <<-1, 0>>, <<100, 1>>,
               <<101, 0>>, <<512, 0>>} }

\* upgrade, lines 48-52, as if no test were made
StartRefusedNever(reply) == FALSE

\* upgrade, lines 48-52: Ret is an integer and !OK_CODES.contains(ret as u32)
StartRefused(reply) == HasRet(reply) /\ ~RetOk(reply)

\* upgrade, lines 39-46: the request that starts the upgrade is written
UpgradeStartCall ==
    /\ pc = "idle"
    /\ Call
    /\ pc' = "up_start" /\ op' = "upgrade" /\ last' = NoCall
    /\ us_sent' = SetMsgId(UpgradeStartCode, QCodeSystemUpgrade)
    /\ us_reply' = NoBody /\ us_progress' = Said("", 0)
    /\ packet_count' = packet_count + 1
    /\ wire_last' = WireFrame(us_sent', session, packet_count)
    /\ UNCHANGED <<flags, session, alive_time, handles, tasks, stream,
                   stream_lock, inbox, peer_closed, dev_left, cur, waited,
                   abort_log, lifecycle, delivered, alarm_callback, mux,
                   notStart>>

\* upgrade, lines 44-68: the reply is read; a refused start is returned as
\* it is, otherwise the upload begins
UpgradeStartReply(reply) ==
    /\ pc = "up_start"
    /\ us_reply' = reply
    /\ IF StartRefused(reply)
       THEN /\ Return("upgrade", "Ok", TRUE, TRUE,
                      Frame(us_sent, 0, session, reply, FALSE))
            /\ UNCHANGED <<ack, blocknum>>
       ELSE /\ pc' = "up_send" /\ blocknum' = 0 /\ ack' = NoFrame
            /\ UNCHANGED <<op, cur, waited, last>>
    /\ UNCHANGED <<flags, atoms, handles, tasks, sock, pre, calls, abort_log,
                   lifecycle, delivered, alarm_callback, message_handlers,
                   stream_handlers, chan, send_pool, wcount, us_sent,
                   us_progress, notStart>>

\* upgrade, lines 44-46: set_command fails
UpgradeStartFails ==
    /\ pc = "up_start"
    /\ Return("upgrade", "Err", TRUE, FALSE, NoFrame)
    /\ UNCHANGED <<flags, atoms, handles, tasks, sock, pre, calls, abort_log,
                   lifecycle, delivered, alarm_callback, mux, ext>>

NextUpgrade ==
    \/ UpgradeStartCall
    \/ \E reply \in StartReplies : UpgradeStartReply(reply)
    \/ UpgradeStartFails
    \/ UpgradeSubmit
    \/ WriterStep
    \/ \E f \in MuxFrames : ReaderStep(f)
    \/ UpgradeAck
    \/ UpgradeListenerStarts
    \/ UpgradeListen
    \/ UpgradeSinkDropped
    \/ ReaderPanics
    \/ DeviceSends("mux")
    \/ DeviceCloses

SpecUpgrade == MuxInit /\ [][NextUpgrade]_vars

(***************************************************************************)
(* The contract of the start of an upgrade.                                *)
(***************************************************************************)
\* the step in which upgrade has read the reply to its first request
StartAnswered == pc = "up_start" /\ us_reply' # NoBody

\* C15, as stated: upgrade starts with a request carrying message id
\* 0x5F5; when the reply's Ret is not in {100, 515} upgrade returns the
\* reply unchanged and sends no firmware block.
C15_StartWith5F5 ==
    /\ [](us_sent \in {0, 1525})
    /\ [][StartAnswered /\ ~RetIn(us_reply', {100, 515})
            => /\ pc' = "idle" /\ last'.result = "Ok"
               /\ last'.reply = us_reply'
               /\ send_pool' = send_pool]_vars

\* C15, amended: upgrade starts with a request carrying message id 0x5F0;
\* when the reply has an integer Ret whose low 32 bits are not in
\* {100, 515} upgrade returns the reply unchanged and sends no firmware
\* block, and no block is sent before the reply is read.
C15_StartWith5F0 ==
    /\ [](/\ us_sent \in {0, 1520}
          /\ pc = "up_start" => us_sent = 1520 /\ us_reply = NoBody
          /\ (last.op = "upgrade" /\ pc = "idle" /\ us_reply.Ret >= 0
                /\ us_reply.Ret \notin {100, 515})
               => last.result = "Ok" /\ last.reply = us_reply)
    /\ [][/\ pc = "up_start" => send_pool' = send_pool
          /\ (StartAnswered /\ us_reply'.Ret >= 0
                /\ us_reply'.Ret \notin {100, 515})
               => /\ pc' = "idle" /\ last'.result = "Ok"
                  /\ last'.reply = us_reply']_vars

\* a refused start has been returned, nothing having been submitted
C15_Witness ==
    /\ pc = "idle" /\ last.op = "upgrade" /\ last.result = "Ok"
    /\ us_sent = 1520 /\ us_reply.Ret = 512 /\ last.reply = us_reply
    /\ send_pool = <<>> /\ wcount = 1

(***************************************************************************)
(* The upload and the listener of upgrade, with the device acknowledging,  *)
(* refusing and reporting.                                                 *)
(***************************************************************************)
\* the device reports on the upgrade while the listener waits and has
\* nothing left to read
DeviceReports ==
    /\ pc = "up_listen" /\ ~peer_closed
    /\ inbox = <<>> /\ chan = <<>>
    /\ inbox' = <<"up">>
    /\ UNCHANGED <<flags, atoms, handles, tasks, stream, stream_lock,
                   peer_closed, wire_last, dev_left, caller, hist,
                   alarm_callback, mux, ext>>

NextListen ==
    \/ UpgradeCall
    \/ UpgradeSubmit
    \/ WriterStep
    \/ \E f \in UpFrames : ReaderStep(f)
    \/ UpgradeAck
    \/ UpgradeListenerStarts
    \/ UpgradeListen
    \/ UpgradeSinkDropped
    \/ ReaderPanics
    \/ DeviceSends("up")
    \/ DeviceReports
    \/ DeviceCloses

SpecListen == MuxInit /\ [][NextListen]_vars

(***************************************************************************)
(* The contract of the upload and of the listener.                         *)
(***************************************************************************)
\* the step in which the upload takes the frame it was given for a block
AckTaken == pc = "up_wait" /\ ack # NoFrame /\ ack' = NoFrame

\* the frame is an acknowledgement of Ret 100 on the upload's message id
Ack100(f) == f.msg_id = UpgradeCode /\ RetIn(f.body, {100})

\* C16: the next block is submitted only after an acknowledgement with
\* Ret 100 has been received for the block on 0x5F2; any other
\* acknowledgement ends the upgrade, which returns the device's reply and
\* submits no further block.
C16_NextBlockAfterAck100 ==
    [][AckTaken =>
         IF Ack100(ack)
         THEN pc' = "up_send" /\ blocknum' = blocknum + 1
         ELSE /\ pc' = "idle" /\ last'.op = "upgrade"
              /\ last'.reply = ack.body
              /\ blocknum' = blocknum /\ send_pool' = send_pool]_vars

\* the frame the listener takes from its channel, when there is one
Heard == IF chan # <<>> THEN Head(chan).body ELSE NoBody

\* the step in which the listener takes a frame
ListenerTakes == pc = "up_listen" /\ chan # <<>> /\ chan' = Tail(chan)

\* C17: the listener returns at the first frame whose Ret is 515, 512, 513
\* or 514, with that frame's reply, and the handler for 0x5F2 is then no
\* longer registered; a frame with Ret <= 100 is reported to the progress
\* callback as "Upgrading: {ret}%" and does not end the wait.
C17_ListenerEndsAtTerminalRet ==
    /\ [](/\ pc = "up_listen" => UpgradeCode \in stream_handlers
          /\ pc = "idle" => UpgradeCode \notin stream_handlers)
    /\ [][ListenerTakes =>
            /\ RetIn(Heard, {515, 512, 513, 514})
                 => /\ pc' = "idle" /\ last'.op = "upgrade"
                    /\ last'.result = "Ok_reply" /\ last'.reply = Heard
                    /\ UpgradeCode \notin stream_handlers'
            /\ RetIn(Heard, 0..100)
                 => /\ pc' = "up_listen"
                    /\ us_progress' = Said("Upgrading", Heard.Ret)
                    /\ UpgradeCode \in stream_handlers'
                    /\ last' = last]_vars

\* the listener has returned a reply of Ret 513 and its handler is gone
C17_Witness ==
    /\ pc = "idle" /\ last.op = "upgrade" /\ last.result = "Ok_reply"
    /\ last.reply.Ret = 513 /\ last.reply.RetHi = 0
    /\ blocknum = MaxBlocks
    /\ us_progress = Said("Upgrade failed", 0)
    /\ UpgradeCode \notin stream_handlers

(***************************************************************************)
(* The backchannel: start_talk, send_audio, stop_talk.  The talk buffer is *)
(* followed by its length.                                                 *)
(***************************************************************************)
\* the calls of the backchannel that are followed
MaxTalk == 4

\* send_audio: packet_size, the id of the media frame, the sample rate
\* index, and the message id of OPTalkData
PacketSize == 320
AudioTag == 506
SampleRate8000 == 2
TalkDataCode == 1432

\* the sizes of the data send_audio is given
AudioSizes == {0, 1, 160, 319, 320, 800}

\* u32::to_be_bytes
ToBe32(n) ==
    <<(n \div 16777216) % 256, (n \div 65536) % 256, (n \div 256) % 256,
      n % 256>>

\* u16::to_le_bytes
ToLe16(n) == <<n % 256, (n \div 256) % 256>>

\* send_audio, lines 86-89: codec_id
CodecId(codec) == IF codec = "PCMA" THEN 14 ELSE 10

\* send_audio, lines 94-106: the raw frame of one chunk, sent without tail
\* and without waiting
AudioFrame(codec) ==
    [msg_id |-> TalkDataCode,
     head |-> ToBe32(AudioTag) \o <<CodecId(codec), SampleRate8000>>
                \o ToLe16(PacketSize),
     payload_len |-> PacketSize, add_tail |-> FALSE, wait |-> FALSE]

\* send_audio, line 91: the loop's condition (Full); FullAbove is the
\* condition with > for >=
FullAbove(len) == len > PacketSize
Full(len) == len >= PacketSize

RECURSIVE Drained(_, _)
\* send_audio, lines 91-107: the length of the buffer after the loop has
\* drained at most max chunks
Drained(len, max) ==
    IF Full(len) /\ max > 0 THEN Drained(len - PacketSize, max - 1) ELSE len

\* the frames of k chunks
Frames(codec, k) == [i \in 1..k |-> AudioFrame(codec)]

\* send_audio, line 75: a codec is recorded (Recorded); RecordedAlways is
\* a send_audio that does not look
RecordedAlways(codec) == TRUE
Recorded(codec) == codec # "None"

TalkCall == tk_calls < MaxTalk /\ tk_calls' = tk_calls + 1

\* start_talk: Claim and Start are sent and the codec is recorded; when
\* either fails nothing is recorded
start_talk(codec) ==
    /\ TalkCall
    /\ \/ tk_codec' = codec /\ tk_out' = TalkResult("start_talk", "Ok")
       \/ UNCHANGED tk_codec /\ tk_out' = TalkResult("start_talk", "Err")
    /\ UNCHANGED <<tk_buffer, tk_frames, tk_fed, tk_clean, notTalk>>

\* send_audio with data of the given size.  Every chunk is drained before
\* it is sent: when send_raw_packet fails the chunk is gone from the buffer
\* and no frame was sent for it.
send_audio(size) ==
    /\ TalkCall
    /\ IF ~Recorded(tk_codec)
       THEN /\ tk_out' = TalkResult("send_audio", "NotInitialized")
            /\ UNCHANGED <<tk_buffer, tk_frames, tk_fed, tk_clean>>
       ELSE LET len == tk_buffer + size
                all == (len - Drained(len, len)) \div PacketSize
            IN /\ tk_fed' = tk_fed + size
               /\ \/ /\ tk_buffer' = Drained(len, len)
                     /\ tk_frames' = tk_frames \o Frames(tk_codec, all)
                     /\ tk_out' = TalkResult("send_audio", "Ok")
                     /\ UNCHANGED tk_clean
                  \/ \E k \in 1..all :
                       /\ tk_buffer' = Drained(len, k)
                       /\ tk_frames' = tk_frames \o Frames(tk_codec, k - 1)
                       /\ tk_out' = TalkResult("send_audio", "Err")
                       /\ tk_clean' = FALSE
    /\ UNCHANGED <<tk_codec, notTalk>>

\* stop_talk: Stop is sent and the codec is cleared; when the request
\* fails the codec stays
stop_talk ==
    /\ TalkCall
    /\ \/ tk_codec' = "None" /\ tk_out' = TalkResult("stop_talk", "Ok")
       \/ UNCHANGED tk_codec /\ tk_out' = TalkResult("stop_talk", "Err")
    /\ UNCHANGED <<tk_buffer, tk_frames, tk_fed, tk_clean, notTalk>>

NextAudio ==
    \/ \E codec \in {"PCMA", "PCMU"} : start_talk(codec)
    \/ \E size \in AudioSizes : send_audio(size)
    \/ stop_talk

SpecAudio == MuxInit /\ [][NextAudio]_vars

(***************************************************************************)
(* The contract of send_audio.                                             *)
(***************************************************************************)
\* C18: after successful send_audio calls that began with an empty buffer
\* and supplied n bytes in all, floor(n/320) frames have been emitted, each
\* with message id 1432, the 8-byte header of 0x1FA and a payload of 320
\* bytes, and n mod 320 bytes are buffered; the buffer holds fewer than
\* 320 bytes whenever send_audio returns Ok.
C18_FramesAndRemainder ==
    /\ tk_clean
         => /\ Len(tk_frames) = tk_fed \div 320
            /\ tk_buffer = tk_fed % 320
    /\ \A i \in DOMAIN tk_frames :
         /\ tk_frames[i].msg_id = 1432
         /\ Len(tk_frames[i].head) = 8
         /\ SubSeq(tk_frames[i].head, 1, 4) = <<0, 0, 1, 250>>
         /\ SubSeq(tk_frames[i].head, 6, 8) = <<2, 64, 1>>
         /\ tk_frames[i].head[5] \in {14, 10}
         /\ tk_frames[i].payload_len = 320
         /\ ~tk_frames[i].add_tail
    /\ tk_out = TalkResult("send_audio", "Ok") => tk_buffer < 320

\* 800 bytes at PCMA: two frames and 160 bytes buffered
C18_Witness ==
    /\ tk_clean /\ tk_fed = 800 /\ tk_calls = 2
    /\ tk_out = TalkResult("send_audio", "Ok")
    /\ Len(tk_frames) = 2 /\ tk_frames[2].head[5] = 14 /\ tk_buffer = 160

\* C19: send_audio called while no codec is recorded returns
\* NotInitialized, emits no frame and leaves the talk buffer as it is.
C19_NotInitialized ==
    [][(tk_calls' = tk_calls + 1 /\ tk_out'.op = "send_audio"
          /\ tk_codec = "None")
         => /\ tk_out'.result = "NotInitialized"
            /\ tk_frames' = tk_frames /\ tk_buffer' = tk_buffer]_vars

\* send_audio after stop_talk, with 160 bytes left in the buffer
C19_Witness ==
    /\ tk_out = TalkResult("send_audio", "NotInitialized")
    /\ tk_codec = "None" /\ tk_calls = 4
    /\ tk_buffer = 160 /\ Len(tk_frames) = 2

(***************************************************************************)
(* PacketHeader::encode and PacketHeader::decode.  A u32 is kept as its    *)
(* two 16-bit halves, <<low, high>>; a byte is a number in 0..255.         *)
(***************************************************************************)
\* PacketHeader::SIZE
HeaderSize == 20

\* LittleEndian::write_u16
WriteU16(n) == <<n % 256, (n \div 256) % 256>>

\* LittleEndian::write_u32
WriteU32(w) == WriteU16(w[1]) \o WriteU16(w[2])

\* LittleEndian::read_u16 of the two bytes at offset at
ReadU16(data, at) == data[at + 1] + 256 * data[at + 2]

\* LittleEndian::read_u32 of the four bytes at offset at
ReadU32(data, at) == <<ReadU16(data, at), ReadU16(data, at + 2)>>

\* PacketHeader::encode
encode(h) ==
    <<h.head, h.version, 0, 0>> \o WriteU32(h.session)
      \o WriteU32(h.packet_count) \o <<0, 0>> \o WriteU16(h.msg_id)
      \o WriteU32(h.data_len)

\* decode, line 30: the test of the length (TooSmall); TooSmallAt20 is the
\* test with <= for <
TooSmallAt20(data) == Len(data) <= HeaderSize
TooSmall(data) == Len(data) < HeaderSize

\* PacketHeader::decode
decode(data) ==
    IF TooSmall(data)
    THEN NoDecoding("Header too small")
    ELSE Decoding(PacketHeader(data[1], data[2], ReadU32(data, 4),
                               ReadU32(data, 8), ReadU16(data, 14),
                               ReadU32(data, 16)))

\* the values of a u32 field, and of a u16 field
Words32 == {<<0, 0>>, <<4660, 0>>, <<1, 32768>>, <<65535, 65535>>}
Words16 == {0, 1000, 258, 65535}

\* the headers that are encoded
Headers ==
    { PacketHeader(head, version, sess, cnt, msg, len) :
        head \in {255, 254}, version \in {0, 1}, sess \in Words32,
        cnt \in {<<0, 0>>, <<1, 32768>>}, msg \in Words16, len \in Words32 }

\* the byte strings decode is given from the wire: of 0, 19, 20 and 21
\* bytes, all of one value or all different
RawInputs ==
    { [i \in 1..n |-> IF b = 1 THEN (7 * i) % 256 ELSE b] :
        n \in {0, 19, 20, 21}, b \in {0, 1, 254, 255} }

\* a header is encoded
EncodeStep(h) ==
    /\ hd_dec # NoDecoding("pending")
    /\ hd_h' = h /\ hd_bytes' = encode(h) /\ hd_dec' = NoDecoding("pending")
    /\ UNCHANGED notCodec

\* bytes come from the wire
FeedStep(data) ==
    /\ hd_dec # NoDecoding("pending")
    /\ hd_h' = NoHeader /\ hd_bytes' = data
    /\ hd_dec' = NoDecoding("pending")
    /\ UNCHANGED notCodec

\* the bytes are decoded
DecodeStep ==
    /\ hd_dec = NoDecoding("pending")
    /\ hd_dec' = decode(hd_bytes)
    /\ UNCHANGED <<hd_h, hd_bytes, notCodec>>

NextCodec ==
    \/ \E h \in Headers : EncodeStep(h)
    \/ \E data \in RawInputs : FeedStep(data)
    \/ DecodeStep

SpecCodec == Init /\ [][NextCodec]_vars

\* decode has returned
Decoded == hd_dec \notin {NoDecoding("none"), NoDecoding("pending")}

\* C20: decoding an encoded header gives its six fields back; decode
\* fails, with "Header too small", exactly when it is given fewer than 20
\* bytes, whatever the first byte is.
C20_RoundTrip ==
    Decoded =>
      /\ hd_dec.ok <=> Len(hd_bytes) >= 20
      /\ ~hd_dec.ok => hd_dec.err = "Header too small"
      /\ hd_h # NoHeader
           => /\ Len(hd_bytes) = 20 /\ hd_dec.ok
              /\ hd_dec.h.head = hd_h.head
              /\ hd_dec.h.version = hd_h.version
              /\ hd_dec.h.session = hd_h.session
              /\ hd_dec.h.packet_count = hd_h.packet_count
              /\ hd_dec.h.msg_id = hd_h.msg_id
              /\ hd_dec.h.data_len = hd_h.data_len
      /\ (hd_h = NoHeader /\ hd_dec.ok) => hd_dec.h.head = hd_bytes[1]

\* a header of magic 0xFE with six different field values has come back
C20_Witness ==
    /\ Decoded /\ hd_h # NoHeader /\ hd_dec.ok /\ hd_dec.h = hd_h
    /\ hd_h.head = 254 /\ hd_h.version = 1 /\ hd_h.session = <<4660, 0>>
    /\ hd_h.packet_count = <<1, 32768>> /\ hd_h.msg_id = 258
    /\ hd_h.data_len = <<65535, 65535>>
    /\ hd_bytes = <<254, 1, 0, 0, 52, 18, 0, 0, 1, 0, 0, 128, 0, 0, 2, 1,
                    255, 255, 255, 255>>

(***************************************************************************)
(* internal_to_datetime_static.  The u32 is kept as its two 16-bit halves, *)
(* <<low, high>>: a mask and a shift of the u32 become a division and a    *)
(* remainder of the half, or of both halves, that holds the bits.          *)
(***************************************************************************)
\* value & 0x3F
Second(v) == v[1] % 64

\* (value & 0xFC0) >> 6
Minute(v) == (v[1] \div 64) % 64

\* (value & 0x1F000) >> 12: bits 12-15 of the low half and bit 0 of the high
\* half (Hour); HourLowHalf is the hour read from the low half alone
HourLowHalf(v) == v[1] \div 4096
Hour(v) == v[1] \div 4096 + 16 * (v[2] % 2)

\* (value & 0x3E0000) >> 17
Day(v) == (v[2] \div 2) % 32

\* (value & 0x3C00000) >> 22
Month(v) == (v[2] \div 64) % 16

\* ((value & 0xFC000000) >> 26) + 2000
Year(v) == v[2] \div 1024 + 2000

\* chrono::NaiveDate::from_ymd_opt: the day exists in the month
IsDate(y, m, d) ==
    /\ m \in 1..12 /\ d >= 1
    /\ d <= CASE m \in {4, 6, 9, 11} -> 30
              [] m = 2 -> IF y % 4 = 0 /\ (y % 100 # 0 \/ y % 400 = 0)
                          THEN 29 ELSE 28
              [] OTHER -> 31

\* NaiveDate::and_hms_opt
IsTime(h, m, s) == h < 24 /\ m < 60 /\ s < 60

\* internal_to_datetime_static: the six fields, and the date and time they
\* make, in place of which the function gives the current time when they
\* make none
internal_to_datetime_static(v) ==
    [second |-> Second(v), minute |-> Minute(v), hour |-> Hour(v),
     day |-> Day(v), month |-> Month(v), year |-> Year(v),
     now |-> ~(/\ IsDate(Year(v), Month(v), Day(v))
               /\ IsTime(Hour(v), Minute(v), Second(v)))]

\* the halves of the values that are decoded; 0x8888 and 0x30C7 are those
\* of 0x30C78888
TimeLow == {0, 1, 59, 63, 34952, 4096, 32768, 61440, 65535, 2184}
TimeHigh == {0, 1, 2, 12487, 12486, 64, 768, 1024, 65535, 32768, 12422}

\* a device time is decoded
DecodeTime(v) ==
    /\ fx_op' = "internal_to_datetime"
    /\ fx_in' = v
    /\ fx_out' = internal_to_datetime_static(v)
    /\ UNCHANGED notCalc

NextTime == \E v \in TimeLow \X TimeHigh : DecodeTime(v)

SpecTime == Init /\ [][NextTime]_vars

\* bits from..to of the u32 whose halves are v, which lie in one half
Bits(v, from, to) ==
    IF to < 16 THEN (v[1] \div 2^from) % 2^(to - from + 1)
    ELSE (v[2] \div 2^(from - 16)) % 2^(to - from + 1)

\* C21, as stated: second is bits 0-5, minute bits 6-11, hour bits 12-16,
\* day bits 17-21, month bits 22-25, year 2000 + bits 26-31; 0x30C78888
\* gives second 8, minute 34, hour 8, day 3, month 3, year 2012.
C21_FieldsAndExampleHour8 ==
    fx_op = "internal_to_datetime" =>
      /\ fx_out.second = Bits(fx_in, 0, 5)
      /\ fx_out.minute = Bits(fx_in, 6, 11)
      /\ fx_out.hour = Bits(fx_in, 12, 15) + 16 * Bits(fx_in, 16, 16)
      /\ fx_out.day = Bits(fx_in, 17, 21)
      /\ fx_out.month = Bits(fx_in, 22, 25)
      /\ fx_out.year = 2000 + Bits(fx_in, 26, 31)
      /\ fx_in = <<34952, 12487>>
           => /\ fx_out.second = 8 /\ fx_out.minute = 34 /\ fx_out.hour = 8
              /\ fx_out.day = 3 /\ fx_out.month = 3 /\ fx_out.year = 2012

\* C21, amended: the same layout; 0x30C78888 gives second 8, minute 34,
\* hour 24, day 3, month 3, year 2012, which is no time of day: the
\* function gives the current time for it.
C21_FieldsAndExampleHour24 ==
    fx_op = "internal_to_datetime" =>
      /\ fx_out.second = Bits(fx_in, 0, 5)
      /\ fx_out.minute = Bits(fx_in, 6, 11)
      /\ fx_out.hour = Bits(fx_in, 12, 15) + 16 * Bits(fx_in, 16, 16)
      /\ fx_out.day = Bits(fx_in, 17, 21)
      /\ fx_out.month = Bits(fx_in, 22, 25)
      /\ fx_out.year = 2000 + Bits(fx_in, 26, 31)
      /\ fx_in = <<34952, 12487>>
           => /\ fx_out.second = 8 /\ fx_out.minute = 34 /\ fx_out.hour = 24
              /\ fx_out.day = 3 /\ fx_out.month = 3 /\ fx_out.year = 2012
              /\ fx_out.now

\* 0x30C78888 has been decoded
C21_Witness ==
    /\ fx_op = "internal_to_datetime" /\ fx_in = <<34952, 12487>>
    /\ fx_out.hour = 24 /\ fx_out.year = 2012

(***************************************************************************)
(* The writer loop of connect(), one statement at a time, with callers     *)
(* that submit requests of every kind to its queue.                        *)
(***************************************************************************)
\* 0x0585, a request answered under the next counter, and the message id
\* of another request
StreamStartCode == 1413

\* the requests a caller submits: with the writer's counter or with a
\* counter of its own, with or without a response sink
Submitted ==
    { Request(StreamStartCode, 0, TRUE, TRUE),
      Request(SystemInfoCode, 0, TRUE, TRUE),
      Request(SystemInfoCode, 2, FALSE, TRUE),
      Request(SystemInfoCode, 0, TRUE, FALSE) }

\* pool.send(request): a request is put in the writer's queue
Submit(r) ==
    /\ send_handle /\ w_subs < MaxRequests
    /\ w_subs' = w_subs + 1
    /\ send_pool' = Append(send_pool, r)
    /\ UNCHANGED <<flags, atoms, handles, tasks, sock, caller, hist,
                   alarm_callback, message_handlers, stream_handlers, chan,
                   wcount, ack, blocknum, w_req, w_did, w_wrote, notWire>>

\* connect, lines 108-134: what the writer does with a request, in order
\* (WriterOrder); WriterOrderLate is a writer that registers the sink
\* after it has written the frame
WriterOrderLate == <<"write", "insert">>
WriterOrder == <<"insert", "write">>

\* a frame the writer has written, the key its sink was registered under,
\* and whether the sink was registered when the frame was written
Written(r, inserted) ==
    [msg_id |-> r.msg_id, packet_count |-> r.packet_count,
     auto |-> r.use_internal_counter, wants |-> r.wants_response,
     sink |-> r.sink, key |-> WaiterKey(r.msg_id, r.packet_count),
     inserted |-> inserted]

\* connect, lines 109-134: one of the two things the writer does with the
\* request in its hands.  A write that fails ends the writer: expect()
\* panics.
WriterDoes(what, r) ==
    IF what = "insert"
    THEN /\ message_handlers' =
              IF r.wants_response
              THEN Insert(message_handlers,
                          WaiterKey(r.msg_id, r.packet_count), r.sink)
              ELSE message_handlers
         /\ UNCHANGED <<writer, wire_last, dev_left, w_wrote>>
    ELSE /\ \/ /\ wire_last' = WireFrame(r.msg_id, session, r.packet_count)
               /\ dev_left' = dev_left + 1
               /\ w_wrote' = Append(w_wrote, Written(r, "insert" \in w_did))
               /\ UNCHANGED writer
            \/ /\ peer_closed
               /\ writer' = "panicked"
               /\ UNCHANGED <<wire_last, dev_left, w_wrote>>
         /\ UNCHANGED message_handlers

\* connect, line 100: recv.recv() gives the request that was sent first
\* (Oldest); Newest is a queue that gives the one sent last
Newest(queue) == queue[Len(queue)]
Oldest(queue) == Head(queue)

\* connect, lines 100-123: the writer takes a request from its queue, gives
\* it its counter when the request asks for it, and does the first thing
WriterBegins ==
    /\ writer = "running" /\ w_req = NoRequest /\ send_pool # <<>>
    /\ LET q == Oldest(send_pool)
           r == Taken(q.msg_id,
                      IF q.use_internal_counter THEN wcount
                      ELSE q.packet_count,
                      q.use_internal_counter, q.wants_response,
                      Len(w_wrote) + 1)
       IN /\ send_pool' = Tail(send_pool)
          /\ w_req' = r
          /\ w_did' = {WriterOrder[1]}
          /\ WriterDoes(WriterOrder[1], r)
    /\ UNCHANGED <<flags, atoms, handles, ka, alarm_worker, reader, stream,
                   stream_lock, inbox, peer_closed, caller, hist,
                   alarm_callback, stream_handlers, chan, wcount, ack,
                   blocknum, w_subs, notWire>>

\* connect, lines 136-138: the writer's counter after a request; a writer
\* that counts every request is AdvancedAlways
AdvancedAlways(r, count) == count + 1
Advanced(r, count) == IF r.use_internal_counter THEN count + 1 ELSE count

\* connect, lines 125-139: the writer does the second thing and, when the
\* counter was its own, advances it
WriterEnds ==
    /\ writer = "running" /\ w_req # NoRequest
    /\ WriterDoes(WriterOrder[2], w_req)
    /\ w_req' = NoRequest /\ w_did' = {}
    /\ wcount' = IF writer' = "running" THEN Advanced(w_req, wcount)
                 ELSE wcount
    /\ UNCHANGED <<flags, atoms, handles, ka, alarm_worker, reader, stream,
                   stream_lock, inbox, peer_closed, caller, hist,
                   alarm_callback, stream_handlers, chan, send_pool, ack,
                   blocknum, w_subs, notWire>>

NextWire ==
    \/ \E r \in Submitted : Submit(r)
    \/ WriterBegins
    \/ WriterEnds
    \/ \E f \in WireFrames : ReaderStep(f)
    \/ DeviceSends("wire")
    \/ DeviceCloses

\* a connection on which no alarm monitoring was started
WireInit == MuxInit /\ ~alarm_monitoring /\ ~alarm_callback

SpecWire == WireInit /\ [][NextWire]_vars

\* the reader has given a frame to the waiter registered under key k
GivenTo(k) ==
    /\ inbox # <<>> /\ inbox' = Tail(inbox)
    /\ delivered' # <<>>
    /\ delivered'[1].to = "waiter" /\ delivered'[1].packet_count = k

\* the writer has registered a sink under key k
PutAt(k) ==
    /\ w_did' # w_did \/ w_req' # w_req
    /\ k \in DOMAIN message_handlers'

\* C22: the sink of a request that wants a response is in the waiter table
\* before the first byte of its frame is written: every frame the writer
\* has written for such a request was written with the sink registered,
\* and a registered sink leaves the table only when the reader gives it a
\* frame or the writer registers another under its key, so in every
\* interleaving of reader and writer the reply to a written frame finds
\* the waiter registered
C22_RegisteredBeforeWritten ==
    /\ [](\A i \in 1..Len(w_wrote) :
            w_wrote[i].wants => w_wrote[i].inserted)
    /\ [][ \A k \in DOMAIN message_handlers :
                \/ k \in DOMAIN message_handlers'
                     /\ (message_handlers'[k] = message_handlers[k] \/ PutAt(k))
                \/ GivenTo(k) ]_vars

\* a frame was written for a request with a sink, the reply arrived, and
\* the reader gave it to that sink
C22_Witness ==
    \E i \in 1..Len(w_wrote) :
        /\ w_wrote[i].wants /\ w_wrote[i].inserted
        /\ delivered # <<>> /\ delivered[1].to = "waiter"
        /\ delivered[1].packet_count = w_wrote[i].key
        /\ ack.packet_count = w_wrote[i].key
        /\ w_wrote[i].key \notin DOMAIN message_handlers

\* the frames the writer has written with a counter of its own
Auto == SelectSeq(w_wrote, LAMBDA w : w.auto)

\* C23: the writer's counter starts at 1 and never decreases; the k-th
\* request that asks for the writer's counter is written with packet
\* counter k, so no two frames of a connection share a counter the writer
\* assigned
C23_KthAutoHasCounterK ==
    /\ [](/\ wcount >= 1
          /\ w_wrote = <<>> /\ w_req = NoRequest => wcount = 1
          /\ \A k \in 1..Len(Auto) : Auto[k].packet_count = k
          /\ \A i, j \in 1..Len(Auto) :
               Auto[i].packet_count = Auto[j].packet_count => i = j)
    /\ [][wcount' >= wcount]_vars

\* three frames are written; the first and the third with the writer's
\* counter, the second with the caller's
C23_Witness ==
    /\ Len(w_wrote) = 3
    /\ w_wrote[1].auto /\ ~w_wrote[2].auto /\ w_wrote[3].auto
    /\ w_wrote[3].packet_count = 2 /\ wcount = 3

(***************************************************************************)
(* The writer alone, with requests of every message id that is registered  *)
(* under the next counter.                                                 *)
(***************************************************************************)
\* requests of the three message ids and of another, with the writer's
\* counter or the caller's, and one without a sink
KeyRequests ==
    { Request(msg, 2, internal, TRUE) :
        msg \in NextCounterCodes \cup {SystemInfoCode}, internal \in BOOLEAN }
    \cup { Request(StreamStartCode, 0, TRUE, FALSE) }

NextKey ==
    \/ \E r \in KeyRequests : Submit(r)
    \/ WriterBegins
    \/ WriterEnds
    \/ DeviceCloses

SpecKey == WireInit /\ [][NextKey]_vars

\* the writer has taken a request
Took == w_req = NoRequest /\ w_req' # NoRequest

\* C24: the writer registers the sink of a request under the frame's packet
\* counter plus one when the message id is 0x0585, 0x0590 or 0x059A, under
\* the frame's packet counter for every other message id, and under no
\* other key; without a sink it registers nothing
C24_KeyIsCounterOrNext ==
    [][Took =>
        LET r == w_req'
            key == IF r.msg_id \in {1413, 1424, 1434}
                   THEN r.packet_count + 1 ELSE r.packet_count
        IN IF r.wants_response
           THEN /\ key \in DOMAIN message_handlers'
                /\ message_handlers'[key] = r.sink
                /\ \A k \in DOMAIN message_handlers' \ {key} :
                     /\ k \in DOMAIN message_handlers
                     /\ message_handlers'[k] = message_handlers[k]
           ELSE message_handlers' = message_handlers]_vars

\* a request of message id 0x0590 written with counter 2 is registered
\* under 3, and a request of another message id under its counter 1
C24_Witness ==
    /\ Len(w_wrote) = 2
    /\ ~w_wrote[1].auto /\ w_wrote[1].msg_id = 1424
    /\ w_wrote[1].packet_count = 2
    /\ w_wrote[2].auto /\ w_wrote[2].msg_id = SystemInfoCode
    /\ w_wrote[2].packet_count = 1
    /\ DOMAIN message_handlers = {1, 3}
    /\ message_handlers[3] = 1 /\ message_handlers[1] = 2

(***************************************************************************)
(* The reader loop of connect() with everything a frame can be routed to:  *)
(* both monitoring flags, waiters of written requests, and the handlers of *)
(* a download.                                                             *)
(***************************************************************************)
\* start_monitor, line 77: the flag is set after Start was sent
start_monitor ==
    /\ ~monitoring
    /\ monitoring' = TRUE
    /\ UNCHANGED <<connected, authenticated, alarm_monitoring, atoms, handles,
                   tasks, sock, caller, hist, alarm_callback, mux, ext>>

\* stop_monitor, line 86
stop_monitor ==
    /\ monitoring
    /\ monitoring' = FALSE
    /\ UNCHANGED <<connected, authenticated, alarm_monitoring, atoms, handles,
                   tasks, sock, caller, hist, alarm_callback, mux, ext>>

\* stream_file, lines 156-160: the handlers of a download are registered
HandlersRegistered ==
    /\ stream_handlers = {}
    /\ stream_handlers' = StreamIds
    /\ chan' = <<>>
    /\ UNCHANGED <<flags, atoms, handles, tasks, sock, caller, hist,
                   alarm_callback, message_handlers, send_pool, wcount, ack,
                   blocknum, ext>>

\* stream_file, lines 192-194: the handlers are removed
HandlersRemoved ==
    /\ stream_handlers # {}
    /\ stream_handlers' = {}
    /\ UNCHANGED <<flags, atoms, handles, tasks, sock, caller, hist,
                   alarm_callback, message_handlers, chan, send_pool, wcount,
                   ack, blocknum, ext>>

NextRoute ==
    \/ start_monitor
    \/ stop_monitor
    \/ HandlersRegistered
    \/ HandlersRemoved
    \/ Submit(Request(SystemInfoCode, 0, TRUE, TRUE))
    \/ WriterBegins
    \/ WriterEnds
    \/ \E f \in RouteFrames : ReaderStep(f)
    \/ DeviceSends("route")
    \/ DeviceCloses

SpecRoute == MuxInit /\ [][NextRoute]_vars

\* the reader has dispatched a frame
Dispatched == inbox # <<>> /\ inbox' = Tail(inbox) /\ delivered' # <<>>

\* C25: each inbound frame goes to exactly one destination, chosen in this
\* order: the video callback when the message id is 1412 and the video
\* flag is set; else the alarm callback when the message id is 1504 and the
\* alarm flag is set; else the waiter registered under its packet counter;
\* else the stream handler registered for its message id; else nowhere
C25_RoutedByPrecedence ==
    [][Dispatched =>
        LET d == delivered'[1]
            to == IF d.msg_id = 1412 /\ monitoring THEN "video"
                  ELSE IF d.msg_id = 1504 /\ alarm_monitoring THEN "alarm"
                  ELSE IF d.packet_count \in DOMAIN message_handlers
                       THEN "waiter"
                  ELSE IF d.msg_id \in stream_handlers THEN "handler"
                  ELSE "discard"
            waiter == to = "waiter"
            handler == to = "handler"
        IN /\ d.to = IF to # "alarm" THEN to
                     ELSE IF alarm_callback THEN "alarm_callback"
                     ELSE "no_callback"
           /\ IF waiter
              THEN /\ ack' # NoFrame
                   /\ ack'.msg_id = d.msg_id
                   /\ ack'.packet_count = d.packet_count
              ELSE ack' = ack
           /\ IF handler
              THEN /\ Len(chan') = Len(chan) + 1
                   /\ chan'[Len(chan')].msg_id = d.msg_id
                   /\ chan'[Len(chan')].packet_count = d.packet_count
              ELSE chan' = chan
           /\ \A k \in DOMAIN message_handlers :
                k \in DOMAIN message_handlers' \/ (waiter /\ k = d.packet_count)
       ]_vars

\* a video frame under the counter of a registered waiter went to the video
\* callback while the handlers of a download were registered
C25_Witness ==
    /\ delivered # <<>> /\ delivered[1].to = "video"
    /\ delivered[1].waiter /\ delivered[1].packet_count = 1
    /\ monitoring /\ stream_handlers # {}
    /\ 1 \in DOMAIN message_handlers
    /\ chan # <<>>

\* C26: a waiter gets at most one frame: in the step in which the reader
\* gives a frame to the waiter registered under a counter, the entry leaves
\* the table and the waiter's sink is under no other key, so the next frame
\* with that counter does not go to it
C26_WaiterRemovedWhenServed ==
    [][\A k \in DOMAIN message_handlers :
         GivenTo(k) =>
            /\ k \notin DOMAIN message_handlers'
            /\ \A j \in DOMAIN message_handlers' :
                 message_handlers'[j] # message_handlers[k]]_vars

\* a waiter was given a frame, and the next frame with the same counter
\* found no waiter and was discarded
C26_Witness ==
    /\ ack # NoFrame
    /\ delivered # <<>> /\ delivered[1].to = "discard"
    /\ ~delivered[1].waiter
    /\ delivered[1].packet_count = ack.packet_count
    /\ \E i \in 1..Len(w_wrote) :
         w_wrote[i].wants /\ w_wrote[i].key = ack.packet_count

\* C27: when the reader hits a short read the connection is marked down,
\* the reader loop ends, and every pending waiter is completed with an
\* error: once the reader has ended on a failed read, the connected flag
\* is false and no waiter is left in the table
C27_ShortReadMarksDown ==
    reader = "panicked" => ~connected /\ message_handlers = EmptyMap

\* C28: forwarding a frame to a stream handler never suspends the reader:
\* whenever a frame has arrived the running reader can take its turn, also
\* when the handler's channel is full
C28_ReaderNeverWaits ==
    reader = "running" /\ inbox # <<>>
        => ENABLED (\E f \in MediaFrames : ReaderStep(f))

\* the frames the reader has forwarded and the download has not lost, in
\* the order of their arrival, change only by a frame added at the end
OneMore(s, t) == Len(t) = Len(s) + 1 /\ SubSeq(t, 1, Len(s)) = s

\* C29: no frame is dropped between the reader and a running download:
\* every frame the reader routes to the download's handler is added to the
\* channel, also after the channel was full, the channel loses a frame
\* only to the download's loop, which takes its oldest, and while frames
\* wait the loop is able to take one
C29_NoFrameDropped ==
    /\ [](dl_pc = "drain" /\ chan # <<>> => ENABLED DownloadTake)
    /\ [][dl_pc = "drain" =>
            /\ Dispatched /\ delivered'[1].to = "handler"
                 => /\ OneMore(chan, chan')
                    /\ chan'[Len(chan')].msg_id = delivered'[1].msg_id
            /\ chan' # chan /\ ~Dispatched
                 => /\ chan' = Tail(chan)
                    /\ dl_taken' = Append(dl_taken, Head(chan))
            /\ Handed' = Handed \/ OneMore(Handed, Handed')]_vars

\* the channel was full while the reader had another frame for it, and the
\* download has taken more frames than the channel holds
C29_Witness ==
    /\ dl_pc = "drain" /\ Len(chan) = MaxQueued /\ inbox # <<>>
    /\ Len(dl_taken) > MaxQueued

(***************************************************************************)
(* Reader and writer with a device that changes the session id.            *)
(***************************************************************************)
NextSession ==
    \/ \E wants \in BOOLEAN : Submit(Request(SystemInfoCode, 0, TRUE, wants))
    \/ WriterBegins
    \/ WriterEnds
    \/ \E f \in SessionFrames : ReaderStep(f)
    \/ DeviceSends("session")
    \/ DeviceCloses

SpecSession == MuxInit /\ [][NextSession]_vars

\* C30: the session id written into an outbound frame is the session field
\* of the inbound frame received last, whatever its message id: when the
\* writer writes a frame after the reader has read one, the frame bears the
\* session id of the frame the reader read last
C30_SessionOfLastInbound ==
    [][Len(w_wrote') > Len(w_wrote) /\ delivered # <<>>
        => wire_last'.session = delivered[1].session]_vars

\* what tells a request from the others: message id, whose counter it
\* bears, the caller's counter, and whether it has a sink
Kind(msg, auto, cnt, wants) == <<msg, auto, IF auto THEN 0 ELSE cnt, wants>>

\* the requests in the order of their submission: those written, the one
\* in the writer's hands, those in the queue
Line ==
    [i \in 1..Len(w_wrote) |->
        Kind(w_wrote[i].msg_id, w_wrote[i].auto, w_wrote[i].packet_count,
             w_wrote[i].wants)]
    \o (IF w_req = NoRequest THEN <<>>
        ELSE <<Kind(w_req.msg_id, w_req.use_internal_counter,
                    w_req.packet_count, w_req.wants_response)>>)
    \o [i \in 1..Len(send_pool) |->
          Kind(send_pool[i].msg_id, send_pool[i].use_internal_counter,
               send_pool[i].packet_count, send_pool[i].wants_response)]

BlockWritten ==
    /\ send_pool # <<>> /\ send_pool' = Tail(send_pool)
    /\ dev_left' = dev_left + 1
    /\ wire_last'.msg_id = UpgradeCode

KeepAliveRunning == {k \in KaIds : ka[k] = "sleep"}

\* C33: at any time at most one keep-alive task is running for a session,
\* also after login has succeeded more than once
C33_OneKeepAlive == Cardinality(KeepAliveRunning) <= 1

\* C34: registering a response waiter never replaces the entry of a
\* request that is still waiting: a sink that is in the table stays under
\* its key, or leaves the table, and no other sink takes its place
C34_NoWaiterReplaced ==
    [][\A k \in DOMAIN message_handlers :
         k \in DOMAIN message_handlers'
            => message_handlers'[k] = message_handlers[k]]_vars

\* C35: no frame of the upload's message id that the device sends after it
\* has acknowledged the empty block is lost before the listener is
\* registered: once the acknowledgement of the empty block is dispatched,
\* the reader discards no 0x5F2 frame
C35_NoReportLost ==
    [][pc = "up_eof" /\ ack # NoFrame /\ Dispatched
        /\ delivered'[1].msg_id = UpgradeCode
        => delivered'[1].to # "discard"]_vars

\* C36: whenever stream_file or download_file returns, with Ok or with an
\* error, none of the stream handlers it registered is left in the table
C36_NoHandlerLeftBehind ==
    dl_pc = "done" => stream_handlers \cap StreamIds = {}

\* C37: is_authenticated() implies is_connected(): the authenticated flag
\* is never true while the connected flag is false
C37_AuthenticatedIsConnected == authenticated => connected

(***************************************************************************)
(* list_local_files against a device that holds a fixed set of recordings  *)
(* and answers a query with the first 64 of those that begin at the        *)
(* requested time or later.                                                *)
(***************************************************************************)
\* the sets of recordings a device may hold
Libraries ==
    { Library(TRUE, <<a, b, c>>) :
        a \in {0, 1, PageSize - 1, PageSize, PageSize + 1},
        b \in {0, 1, PageSize}, c \in {0, 2} }

\* the BeginTime of the k-th recording of a library
TimeOf(lib, k) ==
    IF k <= lib.counts[1] THEN 1
    ELSE IF k <= lib.counts[1] + lib.counts[2] THEN 2 ELSE 3

\* the recordings of a library in the order of their BeginTime
Recordings(lib) ==
    [k \in 1..(lib.counts[1] + lib.counts[2] + lib.counts[3]) |->
        [page |-> 0, index |-> k, BeginTime |-> TimeOf(lib, k)]]

\* the device's answer to a query: the first 64 recordings that do not
\* begin before the requested time
Answer(lib, begin) ==
    LET later == SelectSeq(Recordings(lib), LAMBDA e : e.BeginTime >= begin)
    IN FileReply(100, TRUE,
                 SubSeq(later, 1, IF Len(later) < PageSize THEN Len(later)
                                  ELSE PageSize))

\* the device is one that holds these recordings
DeviceHolds(lib) ==
    /\ dv_lib = NoLibrary /\ lf_pc = "idle"
    /\ dv_lib' = lib
    /\ UNCHANGED notRecordings

\* the device answers the query that was sent last
Answered == Answer(dv_lib, lf_queries[Len(lf_queries)].BeginTime)

LibraryCall == dv_lib.held /\ ListCall

LibraryFirstReply ==
    /\ ListFirstRead(Answered)
    /\ UNCHANGED notFiles

LibraryNextReply ==
    /\ Len(lf_pages) < MaxPages
    /\ ListNextRead(Answered)
    /\ UNCHANGED notFiles

NextLibrary ==
    \/ \E lib \in Libraries : DeviceHolds(lib)
    \/ LibraryCall
    \/ LibraryFirstReply
    \/ LibraryNextReply
    \/ ListFails

SpecLibrary == Init /\ [][NextLibrary]_vars

\* C38: list_local_files ends after finitely many queries against a device
\* that holds a fixed, finite set of recordings.  Such a device answers a
\* query it has answered before as before, and the queries the call can
\* make are finitely many, so the call ends exactly when it sends no query
\* twice: no two of its queries ask for the same BeginTime
C38_NoQueryTwice ==
    \A i, j \in DOMAIN lf_queries :
        i < j => lf_queries[i] # lf_queries[j]

(***************************************************************************)
(* A download with the reader's send and the download's exit taken apart.  *)
(* stream_handlers.get() gives the reader a guard on the handler's entry,  *)
(* which it keeps while it waits in send; stream_handlers.remove() waits   *)
(* until no guard is held on the entry.                                    *)
(***************************************************************************)
\* connect, lines 90-91: the reader has read a frame for a handler whose
\* channel is full: it waits in send and holds the entry
ReaderSuspends(f) ==
    /\ reader = "running" /\ rd_frame = NoFrame
    /\ inbox # <<>> /\ f \in Arrived(Head(inbox))
    /\ Route(f) = "handler" /\ Send(chan, f).waits
    /\ inbox' = Tail(inbox)
    /\ rd_frame' = f
    /\ UNCHANGED <<flags, atoms, handles, tasks, stream, stream_lock,
                   peer_closed, wire_last, dev_left, caller, hist,
                   alarm_callback, mux, notHeld>>

\* connect, lines 91-92: the channel has room, the send ends and the entry
\* is released
ReaderResumes ==
    /\ reader = "running" /\ rd_frame # NoFrame
    /\ ~Send(chan, rd_frame).waits
    /\ chan' = Send(chan, rd_frame).chan
    /\ delivered' = <<Delivery("handler", rd_frame)>>
    /\ rd_frame' = NoFrame
    /\ UNCHANGED <<flags, atoms, handles, tasks, sock, caller, pre, calls,
                   last, abort_log, lifecycle, alarm_callback,
                   message_handlers, stream_handlers, send_pool, wcount, ack,
                   blocknum, notHeld>>

\* one turn of the reader loop that does not wait
ReaderTurn(f) == rd_frame = NoFrame /\ ReaderStep(f)

\* stream_file, lines 181-189: the loop takes a frame that is not empty
DownloadTakesData ==
    /\ chan # <<>> /\ ~EndOfStream(Head(chan))
    /\ DownloadTake

\* stream_file, lines 181-184: the loop takes the empty frame and ends
DownloadLeaves ==
    /\ dl_pc = "drain" /\ chan # <<>> /\ EndOfStream(Head(chan))
    /\ chan' = Tail(chan)
    /\ dl_taken' = Append(dl_taken, Head(chan))
    /\ dl_pc' = "remove"
    /\ UNCHANGED <<stream_handlers, packet_count, wire_last, dev_left, dl_log,
                   dl_out, dl_consumed>>
    /\ UNCHANGED dlKeeps

\* stream_file, lines 191-214: the handlers are removed, which waits for
\* the entry the reader holds, and DownloadStop is written
DownloadRemoves ==
    /\ dl_pc = "remove" /\ rd_frame = NoFrame
    /\ stream_handlers' = stream_handlers \ StreamIds
    /\ \/ /\ DlWrite(PlayBackCode)
          /\ dl_log' = dl_log \o EndSteps
          /\ dl_pc' = "done" /\ dl_out' = "Ok"
       \/ /\ dl_log' = dl_log \o SubSeq(EndSteps, 1, 2)
          /\ dl_pc' = "done" /\ dl_out' = "Err"
          /\ UNCHANGED <<packet_count, wire_last>>
    /\ UNCHANGED <<chan, dev_left, dl_taken, dl_consumed>>
    /\ UNCHANGED dlKeeps

NextDeregister ==
    \/ DownloadCall
    \/ DownloadStart
    \/ DownloadTakesData
    \/ DownloadLeaves
    \/ DownloadRemoves
    \/ \E f \in MediaFrames : ReaderTurn(f)
    \/ \E f \in MediaFrames : ReaderSuspends(f)
    \/ ReaderResumes
    \/ DeviceSends("media")

SpecDeregister == MuxInit /\ [][NextDeregister]_vars

\* C39: removing the stream handlers always completes: in no state does
\* the reader wait in its send into the handler's full channel, holding
\* the handler's entry, while the download waits to remove that entry
C39_RemoveNeverWaits ==
    ~(dl_pc = "remove" /\ rd_frame # NoFrame /\ Send(chan, rd_frame).waits)

(***************************************************************************)
(* The talk byte stream.                                                   *)
(***************************************************************************)
\* the bytes of the emitted talk frames' payloads
Emitted == Len(tk_frames) * PacketSize

\* C40: the payloads of the emitted talk frames, followed by the bytes in
\* the talk buffer, are the bytes send_audio was given: none is lost, also
\* when emitting a frame fails.  The buffer's lock is held from the extend
\* to the return, so calls take their turns one after the other; the bytes
\* are counted.
C40_StreamPreserved == Emitted + tk_buffer = tk_fed

====
